---- MODULE Spec2Model ----
(***************************************************************************)
(* RepoStack-AI server (server/index.js): the retrieval pipeline           *)
(* fetchRepoTreeAndFiles and the /api/walkthrough handler with its answer  *)
(* grounding validation.                                                   *)
(*                                                                         *)
(* JavaScript strings are sequences of one-character strings, so that      *)
(* includes / endsWith / split / match / trim are computed, not assumed.   *)
(***************************************************************************)
EXTENDS Integers, Sequences, FiniteSets, TLC

VARIABLES
  pc,                \* position of the request / retrieval call
  opts,              \* opts argument of fetchRepoTreeAndFiles
  question,          \* question argument / req.query.question
  openai,            \* TRUE iff the module-level openai client is non-null
  rulesStore,        \* module-level Map "owner/repo" -> rules
  tree,              \* treeRes.data.tree || []
  topCandidates,     \* filteredCandidates.slice(0, 500)
  idx,               \* position of the scoring loop in topCandidates
  scoredFiles,       \* scoredFiles array
  embedThrew,        \* TRUE iff the semantic re-rank block threw
  fetchLog,          \* what the file store answered to each content fetch
  embRes,            \* what openai.embeddings.create answered, if called
  depLog,            \* per iteration of the dependency loop: was the file
                     \* present, the content fetched (empty: none), totalBytes
  result,            \* result object of fetchRepoTreeAndFiles
  depIdx,            \* position of the dependency-file loop
  events,            \* names of the SSE events written so far
  ended,             \* TRUE iff res.end() was called
  status,            \* HTTP status of a non-streamed reply (0: none)
  completionCalls,   \* number of openai.chat.completions.create calls
  text,              \* text of the completion
  modelJson,         \* the object JSON.parse produced (before validation)
  walkthrough,       \* payload of the 'result' event
  validated,         \* the json object when validation has finished
  scrubIn,           \* input of the prose scrub (pure-function check)
  scrubOut1,         \* the scrub applied once
  scrubOut2,         \* the scrub applied to its own output
  rulesReply,        \* the last reply of GET /api/rules, with its repo
  posted,            \* repository -> the rules of its last accepted POST
  rulesRead,         \* the rules the retrieval read at line 136
  rateStore,         \* module-level Map ip -> { count, windowStart }
  now,               \* Date.now()
  rateReply,         \* what rateLimitMiddleware did with the last request
  admitted,          \* <<ip, windowStart>> -> requests passed to next()
  attempt,           \* loop variable i of axiosGetWithRetry
  lastErr,           \* lastErr of axiosGetWithRetry
  slept,             \* the delays awaited so far, in order
  calls,             \* how each axios.get call settled, in order
  settled            \* how the call of axiosGetWithRetry settled

vars == << pc, opts, question, openai, rulesStore, tree, topCandidates, idx,
           scoredFiles, embedThrew, fetchLog, embRes, depLog, result, depIdx,
           events, ended, status,
           completionCalls, text, modelJson, walkthrough, validated,
           scrubIn, scrubOut1, scrubOut2,
           rulesReply, posted, rulesRead, rateStore, now, rateReply, admitted,
           attempt, lastErr, slept, calls, settled >>

retrievalVars == << tree, topCandidates, idx, scoredFiles, embedThrew,
                    fetchLog, embRes, depLog, result, depIdx >>
handlerVars == << events, ended, status, completionCalls, text, modelJson,
                  walkthrough, validated >>
scrubVars == << scrubIn, scrubOut1, scrubOut2 >>
rulesVars == << rulesReply, posted, rulesRead >>
rateVars == << rateStore, now, rateReply, admitted >>
retryVars == << attempt, lastErr, slept, calls, settled >>

(***************************************************************************)
(* Bounds of the model.                                                    *)
(***************************************************************************)
\* largest opts.maxFiles tried (0 stands for an absent / falsy option)
MaxFilesOpt == 2
\* largest opts.maxBytes tried
MaxBytesOpt == 8
\* content ceiling of the model; stands for the 100000 of index.js:170
TruncateAt == 20
\* excerpt length of the model; stands for the 300 of index.js:416
ExcerptLen == 3
\* largest number of pieces of an answer text handed to the prose scrub
MaxPieces == 3
\* requests per window of the model; stands for the default 10 of index.js:15
RateLimitMax == 2
\* window length of the model; stands for the default 60000 of index.js:14
RateLimitWindow == 2
\* last instant of the clock
MaxTime == 5
\* largest number of requests one address sends beyond the limit of a window
MaxRejected == 2

(***************************************************************************)
(* Program constants.                                                      *)
(***************************************************************************)
DefaultMaxFiles == 50
DefaultMaxBytes == 200000
WalkthroughMaxFiles == 60
WalkthroughMaxBytes == 300000
WindowSize == 500
PathHitScore == 10
OccurrenceCap == 20
MaxAutoSources == 5

(***************************************************************************)
(* String helpers (JavaScript String methods on character sequences).      *)
(***************************************************************************)
Min(a, b) == IF a < b THEN a ELSE b

\* s.slice(a, b) with 0 <= a, b (0-based, end exclusive)
Slice(s, a, b) == SubSeq(s, a + 1, Min(b, Len(s)))

\* sub occurs in s at 1-based position i
MatchesAt(s, i, sub) ==
  /\ i + Len(sub) - 1 <= Len(s)
  /\ \A k \in 1..Len(sub) : s[i + k - 1] = sub[k]

\* s.includes(sub)
Includes(s, sub) == \E i \in 1..(Len(s) + 1) : MatchesAt(s, i, sub)

\* s.endsWith(sub)
EndsWith(s, sub) ==
  /\ Len(sub) <= Len(s)
  /\ MatchesAt(s, Len(s) - Len(sub) + 1, sub)

\* s.indexOf(sub) for an occurrence known to exist, 1-based
IndexOf(s, sub) == CHOOSE i \in 1..(Len(s) + 1) :
  /\ MatchesAt(s, i, sub)
  /\ \A j \in 1..(i - 1) : ~MatchesAt(s, j, sub)

UpperLetters == << "A","B","C","D","E","F","G","H","I","J","K","L","M",
                   "N","O","P","Q","R","S","T","U","V","W","X","Y","Z" >>
LowerLetters == << "a","b","c","d","e","f","g","h","i","j","k","l","m",
                   "n","o","p","q","r","s","t","u","v","w","x","y","z" >>
Digits == { "0","1","2","3","4","5","6","7","8","9" }
Letters == { UpperLetters[i] : i \in 1..26 } \cup { LowerLetters[i] : i \in 1..26 }

LowerChar(c) ==
  IF \E i \in 1..26 : UpperLetters[i] = c
    THEN LowerLetters[CHOOSE i \in 1..26 : UpperLetters[i] = c]
    ELSE c

\* s.toLowerCase()
ToLowerCase(s) == [i \in 1..Len(s) |-> LowerChar(s[i])]

\* \w of a JavaScript regular expression
WordChars == Letters \cup Digits \cup {"_"}
IsWordChar(c) == c \in WordChars

\* white space removed by String.prototype.trim
IsSpace(c) == c \in {" ", "\n", "\t", "\r"}

\* s.trim()
Trim(s) ==
  IF \A i \in 1..Len(s) : IsSpace(s[i]) THEN << >>
  ELSE LET a == CHOOSE i \in 1..Len(s) :
                  ~IsSpace(s[i]) /\ \A j \in 1..(i - 1) : IsSpace(s[j])
           b == CHOOSE i \in 1..Len(s) :
                  ~IsSpace(s[i]) /\ \A j \in (i + 1)..Len(s) : IsSpace(s[j])
       IN SubSeq(s, a, b)

\* Buffer.byteLength(s, 'utf8'): one byte per ASCII character, two for the
\* accented letter used by the model's contents
CharBytes(c) == IF c = "é" THEN 2 ELSE 1

RECURSIVE ByteLength(_)
ByteLength(s) ==
  IF s = << >> THEN 0 ELSE CharBytes(Head(s)) + ByteLength(Tail(s))

\* path.split('/').length
Depth(path) == 1 + Cardinality({ i \in 1..Len(path) : path[i] = "/" })

\* (s.match(new RegExp(k, 'g')) || []).length for a keyword k of word
\* characters: the leftmost non-overlapping occurrences of k from position i
RECURSIVE Occurrences(_, _, _)
Occurrences(s, k, i) ==
  IF i + Len(k) - 1 > Len(s) THEN 0
  ELSE IF MatchesAt(s, i, k) THEN 1 + Occurrences(s, k, i + Len(k))
  ELSE Occurrences(s, k, i + 1)

\* s.split(/\W+/).filter(w => w.length > 3): the maximal runs of word
\* characters longer than 3, in order (duplicates kept)
RECURSIVE LongWords(_, _, _)
LongWords(s, i, cur) ==
  IF i > Len(s)
    THEN IF Len(cur) > 3 THEN << cur >> ELSE << >>
  ELSE IF IsWordChar(s[i])
    THEN LongWords(s, i + 1, Append(cur, s[i]))
  ELSE (IF Len(cur) > 3 THEN << cur >> ELSE << >>) \o LongWords(s, i + 1, << >>)

\* keywords of fetchRepoTreeAndFiles
Keywords(q) == LongWords(ToLowerCase(q), 1, << >>)

(***************************************************************************)
(* fetchRepoTreeAndFiles: constants of the function.                       *)
(***************************************************************************)
exts ==
  << <<".", "j", "s">>,
     <<".", "t", "s">>,
     <<".", "j", "s", "x">>,
     <<".", "t", "s", "x">>,
     <<".", "p", "y">>,
     <<".", "j", "a", "v", "a">>,
     <<".", "g", "o">>,
     <<".", "r", "s">>,
     <<".", "c">>,
     <<".", "c", "p", "p">>,
     <<".", "c", "s">>,
     <<".", "r", "b">>,
     <<".", "p", "h", "p">>,
     <<".", "j", "s", "o", "n">>,
     <<".", "m", "d">>,
     <<".", "h", "t", "m", "l">>,
     <<".", "c", "s", "s">> >>

skipPatterns ==
  << <<"n", "o", "d", "e", "_", "m", "o", "d", "u", "l", "e", "s", "/">>,
     <<"v", "e", "n", "d", "o", "r", "/">>,
     <<"t", "h", "i", "r", "d", "_", "p", "a", "r", "t", "y", "/">>,
     <<"s", "i", "t", "e", "-", "p", "a", "c", "k", "a", "g", "e", "s", "/">>,
     <<"d", "i", "s", "t", "/">>,
     <<"b", "u", "i", "l", "d", "/">>,
     <<"c", "o", "v", "e", "r", "a", "g", "e", "/">>,
     <<".", "p", "y", "t", "e", "s", "t", "_", "c", "a", "c", "h", "e", "/">>,
     <<".", "v", "e", "n", "v", "/">>,
     <<"_", "_", "p", "y", "c", "a", "c", "h", "e", "_", "_", "/">>,
     <<".", "g", "i", "t", "/">> >>

\* depFilesSet, in insertion order
depFilesSet ==
  << <<"p", "a", "c", "k", "a", "g", "e", ".", "j", "s", "o", "n">>,
     <<"r", "e", "q", "u", "i", "r", "e", "m", "e", "n", "t", "s", ".", "t", "x", "t">>,
     <<"p", "y", "p", "r", "o", "j", "e", "c", "t", ".", "t", "o", "m", "l">> >>

\* the marker appended to truncated content
TruncMarker ==
  <<"\n", "\n", ".", ".", ".", "T", "R", "U", "N", "C", "A", "T", "E", "D", ".", ".", ".">>

\* the key `${owner}/${repo}` of the one repository of the model
repoKey == <<"o", "/", "r">>

NoRules == [whitelist |-> << >>, blacklist |-> << >>]

\* rulesStore.get(repoKey) || { whitelist: [], blacklist: [] }
RulesFor(store, key) == IF key \in DOMAIN store THEN store[key] ELSE NoRules

\* opts.maxFiles || 50 and opts.maxBytes || 200000
maxFiles == IF opts.maxFiles = 0 THEN DefaultMaxFiles ELSE opts.maxFiles
maxBytes == IF opts.maxBytes = 0 THEN DefaultMaxBytes ELSE opts.maxBytes

(***************************************************************************)
(* Stable sort, as Array.prototype.sort with a consistent comparator.      *)
(* Before(a, b, mode) is "comparator(a, b) < 0" for the three comparators  *)
(* of fetchRepoTreeAndFiles.                                               *)
(***************************************************************************)
\* (a.path.split('/').length - b.path.split('/').length) || ((b.size||0) - (a.size||0))
StructuralBefore(a, b) ==
  \/ Depth(a.path) < Depth(b.path)
  \/ Depth(a.path) = Depth(b.path) /\ b.size < a.size

\* variant: equal scores put the deeper path first
LexicalBeforeDeeperFirst(a, b) ==
  \/ b.score < a.score
  \/ b.score = a.score /\ Depth(a.path) > Depth(b.path)

\* (b.score - a.score) || (depth(a) - depth(b))
LexicalBefore(a, b) ==
  \/ b.score < a.score
  \/ b.score = a.score /\ Depth(a.path) < Depth(b.path)

\* (b.finalScore - a.finalScore) || (depth(a) - depth(b))
FinalBefore(a, b) ==
  \/ b.finalScore < a.finalScore
  \/ b.finalScore = a.finalScore /\ Depth(a.path) < Depth(b.path)

Before(a, b, mode) ==
  CASE mode = "structural" -> StructuralBefore(a, b)
    [] mode = "lexical" -> LexicalBefore(a, b)
    [] mode = "final" -> FinalBefore(a, b)

\* x inserted into the sorted sequence s after every element it does not precede
RECURSIVE InsertSorted(_, _, _)
InsertSorted(s, x, mode) ==
  IF s = << >> THEN << x >>
  ELSE IF Before(x, Head(s), mode) THEN << x >> \o s
  ELSE << Head(s) >> \o InsertSorted(Tail(s), x, mode)

RECURSIVE SortBy(_, _)
SortBy(s, mode) ==
  IF s = << >> THEN << >>
  ELSE InsertSorted(SortBy(SubSeq(s, 1, Len(s) - 1), mode), s[Len(s)], mode)

(***************************************************************************)
(* Candidate filter.                                                       *)
(***************************************************************************)
\* t.type === 'blob' && exts.some(e => t.path.endsWith(e))
IsCandidate(t) ==
  /\ t.type = "blob"
  /\ \E i \in 1..Len(exts) : EndsWith(t.path, exts[i])

\* variant: the blacklist is consulted before the whitelist
PassesRulesDenyFirst(t, rules) ==
  IF \E i \in 1..Len(rules.blacklist) : Includes(t.path, rules.blacklist[i])
    THEN FALSE
  ELSE IF \E i \in 1..Len(rules.whitelist) : Includes(t.path, rules.whitelist[i])
    THEN TRUE
  ELSE ~(\E i \in 1..Len(skipPatterns) : Includes(t.path, skipPatterns[i]))

\* the callback of candidates.filter: whitelist, then blacklist, then skip list
PassesRules(t, rules) ==
  IF \E i \in 1..Len(rules.whitelist) : Includes(t.path, rules.whitelist[i])
    THEN TRUE
  ELSE IF \E i \in 1..Len(rules.blacklist) : Includes(t.path, rules.blacklist[i])
    THEN FALSE
  ELSE ~(\E i \in 1..Len(skipPatterns) : Includes(t.path, skipPatterns[i]))

\* filteredCandidates after its sort
FilteredCandidates(tr, rules) ==
  SortBy(SelectSeq(tr, LAMBDA t : IsCandidate(t) /\ PassesRules(t, rules)),
         "structural")

(***************************************************************************)
(* Relevance scoring of one fetched file.                                  *)
(***************************************************************************)
\* content.length > 100000 ? content.slice(0, 100000) + marker : content
Truncate(content) ==
  IF Len(content) > TruncateAt
    THEN Slice(content, 0, TruncateAt) \o TruncMarker
    ELSE content

RECURSIVE PathScore(_, _)
PathScore(pathLower, kws) ==
  IF kws = << >> THEN 0
  ELSE (IF Includes(pathLower, Head(kws)) THEN PathHitScore ELSE 0)
       + PathScore(pathLower, Tail(kws))

RECURSIVE ContentScore(_, _)
ContentScore(contentLower, kws) ==
  IF kws = << >> THEN 0
  ELSE Min(Occurrences(contentLower, Head(kws), 1), OccurrenceCap)
       + ContentScore(contentLower, Tail(kws))

\* score of lines 172-179
Score(path, truncated, kws) ==
  PathScore(ToLowerCase(path), kws) + ContentScore(ToLowerCase(truncated), kws)

\* the object pushed on scoredFiles (hasFinal: finalScore has been assigned)
ScoredFile(item, content, kws) ==
  LET truncated == Truncate(content)
  IN [path |-> item.path, content |-> truncated,
      bytes |-> ByteLength(truncated),
      score |-> Score(item.path, truncated, kws),
      hasFinal |-> FALSE, finalScore |-> 0]

(***************************************************************************)
(* Semantic re-rank.  Embedding vectors are integer pairs of norm 5 (or    *)
(* the zero vector for the question), so that cosine similarity * 100 is   *)
(* an integer; finalScore is kept multiplied by 5:                         *)
(*   5 * (score * 0.2 + sim * 100) = score + 5 * (sim * 100).              *)
(***************************************************************************)
QuestionVectors == { <<3, 4>>, <<0, 0>> }
FileVectors == { <<3, 4>>, <<4, 3>> }

dot(a, b) == a[1] * b[1] + a[2] * b[2]
norm(a) == CHOOSE n \in 0..(dot(a, a)) : n * n = dot(a, a)

\* sim * 100 of line 202
Sim100(qVec, fv) ==
  IF norm(qVec) = 0 THEN 0 ELSE (100 * dot(qVec, fv)) \div (norm(qVec) * norm(fv))

\* variant: the similarity is left out of the blend
FinalScoreLexicalOnly(score, sim100) == score

\* 5 * finalScore of line 205
FinalScore(score, sim100) == score + 5 * sim100

\* openai.embeddings.create has not been called
NoEmbedding == [called |-> FALSE, threw |-> FALSE, vectors |-> << >>]

\* the responses of openai.embeddings.create for n files: a rejection, or
\* any number of vectors up to one per input
EmbeddingResponses(n) ==
  { [threw |-> TRUE, vectors |-> << >>] } \cup
  { [threw |-> FALSE, vectors |-> v] :
      v \in UNION { { w \in [1..k -> QuestionVectors \cup FileVectors] :
                        /\ k >= 1 => w[1] \in QuestionVectors
                        /\ \A i \in 2..k :
                             /\ w[i] \in FileVectors
                             /\ norm(w[1]) = 0 => w[i] = <<3, 4>> }
                    : k \in 0..(n + 1) } }

\* the number of files that get a finalScore before the forEach of line 200
\* throws, or -1 when the try block runs to its sort
ScoredBeforeThrow(files, resp) ==
  IF resp.threw \/ Len(resp.vectors) = 0 THEN 0
  ELSE IF norm(resp.vectors[1]) = 0 THEN -1
  ELSE IF Len(resp.vectors) - 1 < Len(files) THEN Len(resp.vectors) - 1
  ELSE -1

\* files with semanticScore / finalScore assigned on the first k of them
WithFinalScores(files, vectors, k) ==
  [i \in 1..Len(files) |->
     IF i <= k
       THEN [files[i] EXCEPT
               !.hasFinal = TRUE,
               !.finalScore = FinalScore(files[i].score,
                   IF norm(vectors[1]) = 0 THEN 0
                   ELSE Sim100(vectors[1], vectors[i + 1]))]
       ELSE files[i]]

\* variant: the catch block leaves the array as it is
FallbackSortKeepsOrder(files) == files

\* the catch block of line 208: the keyword sort
FallbackSort(files) == SortBy(files, "lexical")

\* lines 189-211: the try block and its catch
SemanticRerank(files, resp) ==
  LET k == ScoredBeforeThrow(files, resp)
  IN IF k = -1
       THEN [threw |-> FALSE,
             files |-> SortBy(WithFinalScores(files, resp.vectors, Len(files)),
                              "final")]
       ELSE [threw |-> TRUE,
             files |-> FallbackSort(
                         IF k = 0 THEN files
                         ELSE WithFinalScores(files, resp.vectors, k))]

(***************************************************************************)
(* Ranked pass and dependency pass.                                        *)
(***************************************************************************)
\* s.replace(sub, ''): the first occurrence of sub removed
ReplaceFirst(s, sub) ==
  IF ~Includes(s, sub) THEN s
  ELSE LET i == IndexOf(s, sub)
       IN SubSeq(s, 1, i - 1) \o SubSeq(s, i + Len(sub), Len(s))

\* the object pushed on result.files by the ranked pass
RankedFile(f) ==
  LET isTruncated == EndsWith(f.content, TruncMarker)
  IN [path |-> f.path,
      content |-> IF isTruncated THEN ReplaceFirst(f.content, TruncMarker)
                  ELSE f.content,
      truncated |-> IF isTruncated THEN "true" ELSE "false"]

\* variant: the ranked pass looks the rules up in the store again
RankedStopsRereadingRules(res, f, mf, mb) ==
  \/ Len(res.files) >= mf
  \/ res.totalBytes + f.bytes > mb
  \/ ~PassesRules(f, RulesFor(rulesStore, repoKey))

\* variant: only the file count stops the ranked pass
RankedStopsOnCount(res, f, mf, mb) == Len(res.files) >= mf

\* the two breaks of lines 219-220
RankedStops(res, f, mf, mb) ==
  \/ Len(res.files) >= mf
  \/ res.totalBytes + f.bytes > mb

\* the loop of lines 218-224
RECURSIVE RankedPass(_, _, _, _)
RankedPass(files, res, mf, mb) ==
  IF files = << >> THEN res
  ELSE IF RankedStops(res, Head(files), mf, mb) THEN res
  ELSE RankedPass(Tail(files),
                  [files |-> Append(res.files, RankedFile(Head(files))),
                   totalBytes |-> res.totalBytes + Head(files).bytes],
                  mf, mb)

\* variant: the headroom test also looks at the file count
DepFitsCount(res, bytes, mf, mb) ==
  res.totalBytes + bytes <= mb /\ Len(res.files) < mf

\* the headroom test of line 235
DepFits(res, bytes, mf, mb) == res.totalBytes + bytes <= mb

\* one iteration of the loop of lines 227-243 whose fetch returned content
AddDep(res, dep, content, mf, mb) ==
  IF DepFits(res, ByteLength(content), mf, mb)
    THEN [files |-> Append(res.files,
                      [path |-> dep, content |-> content, truncated |-> "undefined"]),
          totalBytes |-> res.totalBytes + ByteLength(content)]
    ELSE res

HasPath(files, p) == \E i \in 1..Len(files) : files[i].path = p

(***************************************************************************)
(* JSON values of the model answer.  A string-valued key is                *)
(* [k, s] with k one of "absent", "str", "other" (a truthy non-string);    *)
(* an array-valued key is [k, a] with k one of "absent", "arr", "other".   *)
(* kind is the kind of the top-level value: "object", or "array" (a JSON    *)
(* array has none of the named members until the handler assigns them).    *)
(***************************************************************************)
Absent == [k |-> "absent", s |-> << >>]
Str(s) == [k |-> "str", s |-> s]
OtherValue == [k |-> "other", s |-> << >>]
AbsentArr == [k |-> "absent", a |-> << >>]
Arr(a) == [k |-> "arr", a |-> a]
NotArray == [k |-> "other", a |-> << >>]

NoJson ==
  [kind |-> "none", answer |-> Absent, references |-> AbsentArr,
   trace |-> AbsentArr, sources |-> AbsentArr, missing |-> AbsentArr,
   cannot_answer |-> "absent", reason |-> Absent]

\* the values of JSON.parse('{}') and of JSON.parse of an array text
EmptyObject == [NoJson EXCEPT !.kind = "object"]
ArrayValue == [NoJson EXCEPT !.kind = "array"]

\* JSON.stringify of the walkthrough in sendSSE: the named properties the
\* handler assigned to an array are not serialized, only its elements are
Serialize(json) == IF json.kind = "array" THEN ArrayValue ELSE json

NoScrub ==
  [paths |-> {}, answer |-> << >>, missing |-> << >>, reason |-> Absent,
   cannot_answer |-> "absent"]

(***************************************************************************)
(* Inputs: what the file store and the caller may supply.                  *)
(***************************************************************************)
pathA == <<"a", ".", "j", "s">>
pathAuth == <<"s", "r", "c", "/", "A", "u", "t", "h", ".", "j", "s">>
pathPkg == <<"p", "a", "c", "k", "a", "g", "e", ".", "j", "s", "o", "n">>
pathVendored == <<"n", "o", "d", "e", "_", "m", "o", "d", "u", "l", "e", "s", "/", "x", ".", "j", "s">>
pathText == <<"b", ".", "t", "x", "t">>
pathDir == <<"l", "i", "b">>

entryA == [path |-> pathA, type |-> "blob", size |-> 10]
entryAuth == [path |-> pathAuth, type |-> "blob", size |-> 20]
entryPkg == [path |-> pathPkg, type |-> "blob", size |-> 30]
entryVendored == [path |-> pathVendored, type |-> "blob", size |-> 7]
entryText == [path |-> pathText, type |-> "blob", size |-> 3]
entryDir == [path |-> pathDir, type |-> "tree", size |-> 0]

\* the tree listings the file store may return
Trees ==
  { << >>,
    << entryDir, entryAuth, entryVendored, entryA, entryText >>,
    << entryAuth, entryA, entryPkg >> }

\* decoded contents a file fetch may return (non-empty)
contentAuth == <<"A", "u", "t", "h">>
\* a file longer than the ceiling in which no word of any question occurs
contentLong == [i \in 1..24 |-> IF i % 2 = 1 THEN "x" ELSE "y"]
contentWide == <<"x", "é">>
\* a short file whose own text ends with the marker text
contentMarked == <<"a", "b">> \o TruncMarker
Contents == { contentAuth, contentLong, contentWide, contentMarked }

\* outcomes of one content fetch through axiosGetWithRetry: all attempts
\* failed, a response without content, or a response with content
FetchOutcomes ==
  { [kind |-> "fail", content |-> << >>], [kind |-> "empty", content |-> << >>] }
  \cup { [kind |-> "ok", content |-> c] : c \in Contents }

contentManifest == <<"{", "}">>
DepOutcomes ==
  { [kind |-> "fail", content |-> << >>], [kind |-> "empty", content |-> << >>],
    [kind |-> "ok", content |-> contentManifest] }

questionAuth == <<"a", "u", "t", "h">>
questionTwice == <<"a", "u", "t", "h", " ", "a", "u", "t", "h">>
questionWhere == <<"W", "h", "e", "r", "e", " ", "i", "s", " ", "A", "u", "t", "h", "?">>
\* a question that names the module once and says "trun" eleven times
wordTrun == <<" ", "t", "r", "u", "n">>
RECURSIVE Repeat(_, _)
Repeat(w, n) == IF n = 0 THEN << >> ELSE w \o Repeat(w, n - 1)
questionTruncated == <<"A", "u", "t", "h", "?">> \o Repeat(wordTrun, 11)
Questions == { << >>, questionTwice, questionTruncated }

OptsChoices ==
  { [maxFiles |-> 0, maxBytes |-> 0] } \cup
  { [maxFiles |-> f, maxBytes |-> b] :
      f \in 1..MaxFilesOpt, b \in { MaxBytesOpt \div 2, MaxBytesOpt } }

(***************************************************************************)
(* fetchRepoTreeAndFiles, one action per awaited call.                     *)
(***************************************************************************)
EmptyResult == [files |-> << >>, totalBytes |-> 0]

\* lines 123-154: default branch and tree fetched, candidates filtered;
\* a failure of either fetch is caught at line 244 and the empty result returned
\* the logger argument is set (the walkthrough handler passes one, and has
\* written its first log events before the call)
HasLogger == events # << >>

\* events after n calls of the logger
Logged(n) ==
  IF HasLogger THEN events \o [i \in 1..n |-> "log"] ELSE events

FetchTreeFrom(trees) ==
  /\ pc = "tree"
  /\ \/ /\ pc' = "returned"
        /\ \E n \in 1..2 : events' = Logged(n)
        /\ UNCHANGED << tree, topCandidates, rulesRead >>
     \/ \E tr \in trees :
          /\ tree' = tr
          /\ rulesRead' = RulesFor(rulesStore, repoKey)
          /\ topCandidates' =
               Slice(FilteredCandidates(tr, RulesFor(rulesStore, repoKey)),
                     0, WindowSize)
          /\ events' = Logged(1)
          /\ pc' = "score"
  /\ UNCHANGED << opts, question, openai, rulesStore, idx, scoredFiles,
                  embedThrew, fetchLog, embRes, depLog, result, depIdx >>
  /\ UNCHANGED << ended, status, completionCalls, text, modelJson, walkthrough, validated >>
  /\ UNCHANGED scrubVars
  /\ UNCHANGED << rulesReply, posted, rateVars, retryVars >>

FetchTree == FetchTreeFrom(Trees)

\* variant: the breaks count the files scored so far
ScoringContinuesUntilCap ==
  /\ idx <= Len(topCandidates)
  /\ ~(Len(scoredFiles) >= maxFiles)
  /\ ~(result.totalBytes >= maxBytes)

\* the scoring loop of lines 161-186 has not left by one of its breaks
ScoringContinues ==
  /\ idx <= Len(topCandidates)
  /\ ~(Len(result.files) >= maxFiles)
  /\ ~(result.totalBytes >= maxBytes)

\* variant: a failed fetch discards what was scored so far
ScoredAfterAbort(scored, item, o, kws) ==
  IF o.kind = "ok" THEN Append(scored, ScoredFile(item, o.content, kws))
  ELSE IF o.kind = "fail" THEN << >>
  ELSE scored

\* scoredFiles after the try / catch of lines 164-185 for one item
ScoredAfter(scored, item, o, kws) ==
  IF o.kind = "ok" THEN Append(scored, ScoredFile(item, o.content, kws))
  ELSE scored

\* lines 161-186: one iteration of the scoring loop
ScoreNextWith(outcomes) ==
  /\ pc = "score"
  /\ ScoringContinues
  /\ \E o \in outcomes :
       /\ scoredFiles' = ScoredAfter(scoredFiles, topCandidates[idx], o,
                                     Keywords(question))
       /\ events' = IF o.kind = "fail" THEN Logged(1) ELSE events
       /\ fetchLog' = Append(fetchLog,
                         [path |-> topCandidates[idx].path, kind |-> o.kind,
                          content |-> o.content])
  /\ idx' = idx + 1
  /\ UNCHANGED << pc, opts, question, openai, rulesStore, tree, topCandidates,
                  embedThrew, embRes, depLog, result, depIdx >>
  /\ UNCHANGED << ended, status, completionCalls, text, modelJson, walkthrough, validated >>
  /\ UNCHANGED scrubVars
  /\ UNCHANGED << rulesVars, rateVars, retryVars >>

ScoreNext == ScoreNextWith(FetchOutcomes)

\* lines 188-215: the semantic re-rank or the keyword sort
Rank ==
  /\ pc = "score"
  /\ ~ScoringContinues
  /\ IF question # << >> /\ openai /\ Len(scoredFiles) > 0
       THEN \E resp \in EmbeddingResponses(Len(scoredFiles)) :
              LET r == SemanticRerank(scoredFiles, resp)
              IN /\ scoredFiles' = r.files
                 /\ embedThrew' = r.threw
                 /\ embRes' = [called |-> TRUE, threw |-> resp.threw,
                               vectors |-> resp.vectors]
       ELSE /\ scoredFiles' = SortBy(scoredFiles, "lexical")
            /\ UNCHANGED << embedThrew, embRes >>
  /\ pc' = "select"
  /\ UNCHANGED << opts, question, openai, rulesStore, tree, topCandidates,
                  idx, fetchLog, depLog, result, depIdx >>
  /\ UNCHANGED handlerVars
  /\ UNCHANGED scrubVars
  /\ UNCHANGED << rulesVars, rateVars, retryVars >>

\* lines 217-224: the ranked pass
Select ==
  /\ pc = "select"
  /\ result' = RankedPass(scoredFiles, result, maxFiles, maxBytes)
  /\ depIdx' = 1
  /\ pc' = "deps"
  /\ UNCHANGED << opts, question, openai, rulesStore, tree, topCandidates,
                  idx, scoredFiles, embedThrew, fetchLog, embRes, depLog >>
  /\ UNCHANGED handlerVars
  /\ UNCHANGED scrubVars
  /\ UNCHANGED << rulesVars, rateVars, retryVars >>

\* lines 227-243: one iteration of the dependency-file loop
DepNextWith(outcomes) ==
  /\ pc = "deps"
  /\ depIdx <= Len(depFilesSet)
  /\ LET dep == depFilesSet[depIdx]
     IN IF HasPath(result.files, dep)
          THEN /\ UNCHANGED result
               /\ depLog' = Append(depLog,
                               [present |-> TRUE, content |-> << >>,
                                before |-> result.totalBytes])
          ELSE \E o \in outcomes :
                 /\ result' = IF o.kind = "ok"
                               THEN AddDep(result, dep, o.content, maxFiles, maxBytes)
                               ELSE result
                 /\ depLog' = Append(depLog,
                                 [present |-> FALSE, content |-> o.content,
                                  before |-> result.totalBytes])
  /\ depIdx' = depIdx + 1
  /\ UNCHANGED << pc, opts, question, openai, rulesStore, tree, topCandidates,
                  idx, scoredFiles, embedThrew, fetchLog, embRes >>
  /\ UNCHANGED handlerVars
  /\ UNCHANGED scrubVars
  /\ UNCHANGED << rulesVars, rateVars, retryVars >>

DepNext == DepNextWith(DepOutcomes)

\* line 248: return result
Return ==
  /\ pc = "deps"
  /\ depIdx > Len(depFilesSet)
  /\ pc' = "returned"
  /\ UNCHANGED << opts, question, openai, rulesStore >>
  /\ UNCHANGED retrievalVars
  /\ UNCHANGED handlerVars
  /\ UNCHANGED scrubVars
  /\ UNCHANGED << rulesVars, rateVars, retryVars >>

(***************************************************************************)
(* The module-level services right after the server has started.           *)
(***************************************************************************)
\* no reply of GET /api/rules yet
NoReply == [repo |-> << >>, status |-> 0, key |-> << >>, rules |-> NoRules]

\* rateLimitMiddleware has seen no request yet
NoRateReply ==
  [ip |-> "none", path |-> "none", status |-> 0, at |-> 0, hadEntry |-> FALSE,
   prevStart |-> 0]

\* no error caught yet
NoError == "none"

\* axiosGetWithRetry has not settled
Pending == [kind |-> "pending", value |-> "none"]

ServicesIdle ==
  /\ rulesReply = NoReply
  /\ posted = [key \in {} |-> NoRules]
  /\ rulesRead = NoRules
  /\ rateStore = [ip \in {} |-> [count |-> 0, windowStart |-> 0]]
  /\ now = 0
  /\ rateReply = NoRateReply
  /\ admitted = [w \in {} |-> 0]
  /\ attempt = 0
  /\ lastErr = NoError
  /\ slept = << >>
  /\ calls = << >>
  /\ settled = Pending

\* a call fetchRepoTreeAndFiles(owner, repo, token, opts, null, question)
InitRetrieval ==
  /\ pc = "tree"
  /\ opts \in OptsChoices
  /\ question \in Questions
  /\ openai \in BOOLEAN
  /\ rulesStore = [key \in {} |-> NoRules]
  /\ tree = << >>
  /\ topCandidates = << >>
  /\ idx = 1
  /\ scoredFiles = << >>
  /\ embedThrew = FALSE
  /\ fetchLog = << >>
  /\ embRes = NoEmbedding
  /\ depLog = << >>
  /\ result = EmptyResult
  /\ depIdx = 1
  /\ events = << >>
  /\ ended = FALSE
  /\ status = 0
  /\ completionCalls = 0
  /\ text = << >>
  /\ modelJson = NoJson
  /\ walkthrough = NoJson
  /\ validated = NoJson
  /\ scrubIn = NoScrub
  /\ scrubOut1 = NoScrub
  /\ scrubOut2 = NoScrub
  /\ ServicesIdle

NextRetrieval == FetchTree \/ ScoreNext \/ Rank \/ Select \/ DepNext \/ Return

SpecRetrieval == InitRetrieval /\ [][NextRetrieval]_vars

(***************************************************************************)
(* app.post('/api/rules') followed by a retrieval of the repository o/r.   *)
(***************************************************************************)
githubPrefix == <<"g", "i", "t", "h", "u", "b", ".", "c", "o", "m", "/">>

\* (?:github.com\/)? matches at position p ('.' matches any character, flag i)
PrefixMatchesAt(s, p) ==
  /\ p + Len(githubPrefix) - 1 <= Len(s)
  /\ \A k \in 1..Len(githubPrefix) :
       k = 7 \/ LowerChar(s[p + k - 1]) = githubPrefix[k]

\* (.+?)\/(.+?)(?:$|\/|\.) matched from position q: the first group ends
\* before the first '/' after q that is not the last character, the second
\* is the shortest non-empty run followed by the end, a '/' or a '.'
RestMatch(s, q) ==
  LET slashes == { a \in (q + 1)..(Len(s) - 1) : s[a] = "/" }
  IN IF q > Len(s) \/ slashes = {} THEN [ok |-> FALSE, key |-> << >>]
     ELSE LET a == CHOOSE x \in slashes : \A y \in slashes : x <= y
              ends == { b \in (a + 1)..Len(s) :
                          b = Len(s) \/ s[b + 1] \in { "/", "." } }
              b == CHOOSE x \in ends : \A y \in ends : x <= y
          IN [ok |-> TRUE,
              key |-> SubSeq(s, q, a - 1) \o << "/" >> \o SubSeq(s, a + 1, b)]

\* repo.match(/(?:github.com\/)?(.+?)\/(.+?)(?:$|\/|\.)/i) and the key
\* `${m[1]}/${m[2]}`; a match, if any, starts at the first character
RulesKey(repo) ==
  IF PrefixMatchesAt(repo, 1) /\ RestMatch(repo, 1 + Len(githubPrefix)).ok
    THEN RestMatch(repo, 1 + Len(githubPrefix))
    ELSE RestMatch(repo, 1)

\* repo.match(/github.com\/(.+?)\/(.+?)(?:$|\/|\.)/i) of GET /api/rules
\* and the key: the match starts at the leftmost "github.com/" that a
\* two-part name follows
GetRulesKey(repo) ==
  LET starts == { p \in 1..Len(repo) :
                    /\ PrefixMatchesAt(repo, p)
                    /\ RestMatch(repo, p + Len(githubPrefix)).ok }
  IN IF starts = {} THEN [ok |-> FALSE, key |-> << >>]
     ELSE RestMatch(repo,
            (CHOOSE p \in starts : \A p2 \in starts : p <= p2) + Len(githubPrefix))

\* the "owner/name" a repository reference stands for: what follows the
\* host in a URL, or the reference itself
RepositoryOf(repo) ==
  LET hosts == { p \in 1..Len(repo) : PrefixMatchesAt(repo, p) }
  IN IF hosts = {} THEN RestMatch(repo, 1).key
     ELSE RestMatch(repo,
            (CHOOSE p \in hosts : \A p2 \in hosts : p <= p2) + Len(githubPrefix)).key

\* Array.isArray(x) ? x : []
ArrayOrEmpty(x) == IF x.k = "arr" THEN x.a ELSE << >>

\* the normalized rules of line 488
NormalizeRules(rules) ==
  [whitelist |-> ArrayOrEmpty(rules.whitelist),
   blacklist |-> ArrayOrEmpty(rules.blacklist)]

\* request bodies of POST /api/rules
patNodeModules == <<"n", "o", "d", "e", "_", "m", "o", "d", "u", "l", "e", "s", "/">>
patSrc == <<"s", "r", "c", "/">>
patAuth == <<"A", "u", "t", "h">>
repoOther == <<"p", "/", "q">>
repoUrl == githubPrefix \o repoKey
repoNoSlash == <<"x">>
repoHttps == <<"h", "t", "t", "p", "s", ":", "/", "/">> \o repoUrl

RuleRepos == { << >>, repoNoSlash, repoKey, repoUrl, repoHttps, repoOther }
RuleBodies ==
  { [whitelist |-> AbsentArr, blacklist |-> NotArray],
    [whitelist |-> Arr(<< patNodeModules >>), blacklist |-> Arr(<< >>)],
    [whitelist |-> Arr(<< patNodeModules, pathDir, pathText >>),
     blacklist |-> Arr(<< patNodeModules, pathA >>)],
    [whitelist |-> Arr(<< >>), blacklist |-> Arr(<< patSrc >>)],
    [whitelist |-> Arr(<< patAuth >>), blacklist |-> Arr(<< patSrc >>)] }

\* lines 482-491: one POST /api/rules request
PostRulesFrom(repos, bodies) ==
  /\ \E repo \in repos, hasRules \in BOOLEAN, rules \in bodies :
       IF repo = << >> \/ ~hasRules \/ ~RulesKey(repo).ok
         THEN UNCHANGED << rulesStore, rulesReply, posted >>
         ELSE /\ rulesStore' =
                   [key \in DOMAIN rulesStore \cup { RulesKey(repo).key } |->
                      IF key = RulesKey(repo).key THEN NormalizeRules(rules)
                      ELSE rulesStore[key]]
              /\ posted' =
                   [key \in DOMAIN posted \cup { RepositoryOf(repo) } |->
                      IF key = RepositoryOf(repo) THEN NormalizeRules(rules)
                      ELSE posted[key]]
              /\ rulesReply' = NoReply
  /\ UNCHANGED << pc, opts, question, openai, rulesRead >>
  /\ UNCHANGED retrievalVars
  /\ UNCHANGED handlerVars
  /\ UNCHANGED scrubVars
  /\ UNCHANGED << rateVars, retryVars >>

\* a POST /api/rules request between retrievals
PostRules == pc = "tree" /\ PostRulesFrom(RuleRepos, RuleBodies)

\* lines 472-480: a GET /api/rules request, between retrievals
GetRules ==
  /\ pc = "tree"
  /\ \E repo \in RuleRepos :
       rulesReply' =
         IF repo = << >> \/ ~GetRulesKey(repo).ok
           THEN [repo |-> repo, status |-> 400, key |-> << >>, rules |-> NoRules]
           ELSE [repo |-> repo, status |-> 200, key |-> GetRulesKey(repo).key,
                 rules |-> RulesFor(rulesStore, GetRulesKey(repo).key)]
  /\ UNCHANGED << pc, opts, question, openai, rulesStore, posted, rulesRead >>
  /\ UNCHANGED retrievalVars
  /\ UNCHANGED handlerVars
  /\ UNCHANGED scrubVars
  /\ UNCHANGED << rateVars, retryVars >>

RulesTrees ==
  { << >>, << entryDir, entryAuth, entryVendored, entryA, entryText >> }

RulesFetchTree == FetchTreeFrom(RulesTrees)
RulesScoreNext ==
  ScoreNextWith({ [kind |-> "fail", content |-> << >>],
                  [kind |-> "ok", content |-> contentAuth] })
RulesDepNext ==
  DepNextWith({ [kind |-> "fail", content |-> << >>],
                [kind |-> "ok", content |-> contentManifest] })

\* the server has just started; the retrieval is the one of /api/walkthrough
InitRules ==
  /\ pc = "tree"
  /\ opts = [maxFiles |-> WalkthroughMaxFiles, maxBytes |-> WalkthroughMaxBytes]
  /\ question = questionAuth
  /\ openai = FALSE
  /\ rulesStore = [key \in {} |-> NoRules]
  /\ tree = << >>
  /\ topCandidates = << >>
  /\ idx = 1
  /\ scoredFiles = << >>
  /\ embedThrew = FALSE
  /\ fetchLog = << >>
  /\ embRes = NoEmbedding
  /\ depLog = << >>
  /\ result = EmptyResult
  /\ depIdx = 1
  /\ events = << >>
  /\ ended = FALSE
  /\ status = 0
  /\ completionCalls = 0
  /\ text = << >>
  /\ modelJson = NoJson
  /\ walkthrough = NoJson
  /\ validated = NoJson
  /\ scrubIn = NoScrub
  /\ scrubOut1 = NoScrub
  /\ scrubOut2 = NoScrub
  /\ ServicesIdle

NextRules ==
  PostRules \/ GetRules \/ RulesFetchTree \/ RulesScoreNext \/ Rank \/ Select
    \/ RulesDepNext \/ Return

SpecRules == InitRules /\ [][NextRules]_vars

(***************************************************************************)
(* Prose hallucination scrub (lines 437-460).                              *)
(***************************************************************************)
\* the alternatives of fileLikeRegex, in the order the regex tries them
fileLikeExts ==
  << <<"j", "s">>,
     <<"j", "s", "x">>,
     <<"t", "s">>,
     <<"t", "s", "x">>,
     <<"p", "y">>,
     <<"j", "a", "v", "a">>,
     <<"g", "o">>,
     <<"r", "b">>,
     <<"p", "h", "p">>,
     <<"r", "s">>,
     <<"c">>,
     <<"c", "p", "p">>,
     <<"c", "s">>,
     <<"j", "s", "o", "n">>,
     <<"m", "d">>,
     <<"h", "t", "m", "l">>,
     <<"c", "s", "s">> >>

\* the character class [A-Za-z0-9_\-\.\/]
PathChars == Letters \cup Digits \cup {"_", "-", ".", "/"}
IsPathChar(c) == c \in PathChars

\* last position of the run of class characters that starts at i (i - 1 if
\* s[i] is not in the class)
RunEnd(s, i) ==
  LET stops == { k \in i..Len(s) : ~IsPathChar(s[k]) }
  IN IF stops = {} THEN Len(s)
     ELSE (CHOOSE k \in stops : \A k2 \in stops : k <= k2) - 1

\* some alternative of the extension group matches at position i
ExtMatchesAt(s, i) == \E x \in 1..Len(fileLikeExts) : MatchesAt(s, i, fileLikeExts[x])

\* the positions j of the literal dot of a match of fileLikeRegex that
\* starts at i: s[i..j-1] is a non-empty run of class characters
DotPositions(s, i) ==
  { j \in (i + 1)..RunEnd(s, i) : s[j] = "." /\ ExtMatchesAt(s, j + 1) }

\* end position of the match of fileLikeRegex starting at i, 0 if none: the
\* class is greedy (last dot first), the first matching alternative is taken
MatchEnd(s, i) ==
  LET dots == DotPositions(s, i)
  IN
  IF dots = {} THEN 0
  ELSE LET j == CHOOSE d \in dots : \A d2 \in dots : d2 <= d
           x == CHOOSE y \in 1..Len(fileLikeExts) :
                  /\ MatchesAt(s, j + 1, fileLikeExts[y])
                  /\ \A z \in 1..(y - 1) : ~MatchesAt(s, j + 1, fileLikeExts[z])
       IN j + Len(fileLikeExts[x])

\* answerText.match(fileLikeRegex) || []: the matches from position i on
RECURSIVE FileLikeMatches(_, _)
FileLikeMatches(s, i) ==
  IF i > Len(s) THEN << >>
  ELSE LET e == MatchEnd(s, i)
       IN IF e = 0 THEN FileLikeMatches(s, i + 1)
          ELSE << SubSeq(s, i, e) >> \o FileLikeMatches(s, e + 1)

\* Array.from(new Set(seq)): first occurrences, in order
RECURSIVE Dedupe(_)
Dedupe(seq) ==
  IF seq = << >> THEN << >>
  ELSE LET init == Dedupe(SubSeq(seq, 1, Len(seq) - 1))
           x == seq[Len(seq)]
       IN IF \E i \in 1..Len(init) : init[i] = x THEN init ELSE Append(init, x)

\* answerText.split(/\n\n+/)
RECURSIVE SplitParas(_, _, _)
SplitParas(s, i, cur) ==
  IF i > Len(s) THEN << cur >>
  ELSE IF s[i] = "\n" /\ i + 1 <= Len(s) /\ s[i + 1] = "\n"
    THEN LET rest == { k \in i..Len(s) : s[k] # "\n" }
             next == IF rest = {} THEN Len(s) + 1
                     ELSE CHOOSE k \in rest : \A k2 \in rest : k <= k2
         IN << cur >> \o (IF next > Len(s) THEN << << >> >>
                          ELSE SplitParas(s, next, << >>))
  ELSE SplitParas(s, i + 1, Append(cur, s[i]))

\* paras.join('\n\n')
RECURSIVE JoinParas(_)
JoinParas(ps) ==
  IF ps = << >> THEN << >>
  ELSE IF Len(ps) = 1 THEN ps[1]
  ELSE ps[1] \o << "\n", "\n" >> \o JoinParas(Tail(ps))

\* u.replace(/\.[^.]+$/, '')
StripExtension(u) ==
  LET dots == { i \in 1..Len(u) : u[i] = "." }
  IN IF dots = {} THEN u
     ELSE LET last == CHOOSE i \in dots : \A j \in dots : j <= i
          IN IF last = Len(u) THEN u ELSE SubSeq(u, 1, last - 1)

FallbackAnswer ==
  <<"S", "o", "m", "e", " ", "r", "e", "q", "u", "e", "s", "t", "e", "d", " ", "c", "o", "m", "p", "o", "n", "e", "n", "t", "s", " ", "o", "r", " ", "f", "i", "l", "e", "s", " ", "a", "r", "e", " ", "n", "o", "t", " ", "p", "r", "e", "s", "e", "n", "t", " ", "i", "n", " ", "t", "h", "i", "s", " ", "r", "e", "p", "o", "s", "i", "t", "o", "r", "y", ".">>

ScrubReason ==
  <<"R", "e", "m", "o", "v", "e", "d", " ", "r", "e", "f", "e", "r", "e", "n", "c", "e", "s", " ", "t", "o", " ", "f", "i", "l", "e", "s", " ", "n", "o", "t", " ", "p", "r", "e", "s", "e", "n", "t", " ", "i", "n", " ", "r", "e", "p", "o", "s", "i", "t", "o", "r", "y", ".">>

\* !json.reason
ReasonIsFalsy(reason) == reason.k = "absent" \/ (reason.k = "str" /\ reason.s = << >>)

\* mentioned.filter(m => !availablePaths.has(m))
UnknownMentions(answerText, paths) ==
  SelectSeq(Dedupe(FileLikeMatches(answerText, 1)), LAMBDA m : m \notin paths)

\* the callback of paras.filter at line 447
KeepPara(p, unknown, paths) ==
  \/ ~(\E i \in 1..Len(unknown) : Includes(p, unknown[i]))
  \/ Trim(p) \in paths

\* variant: every addition is pushed, also one already listed
AddMissingAlways(missing, additions) ==
  missing \o [i \in 1..Len(additions) |-> Str(additions[i])]

\* additions.forEach(a => { if (!json.missing.includes(a)) json.missing.push(a) })
RECURSIVE AddMissing(_, _)
AddMissing(missing, additions) ==
  IF additions = << >> THEN missing
  ELSE AddMissing(
         IF \E i \in 1..Len(missing) : missing[i] = Str(Head(additions))
           THEN missing ELSE Append(missing, Str(Head(additions))),
         Tail(additions))

\* lines 439-460 on a non-empty answerText; in is
\* [paths, answer, missing, reason, cannot_answer]
Scrub(in) ==
  LET unknown == UnknownMentions(in.answer, in.paths)
  IN IF in.answer = << >> \/ unknown = << >> THEN in
     ELSE LET paras == SplitParas(in.answer, 1, << >>)
              filteredParas == SelectSeq(paras, LAMBDA p : KeepPara(p, unknown, in.paths))
              joined == Trim(JoinParas(filteredParas))
              additions == [i \in 1..Len(unknown) |-> StripExtension(unknown[i])]
          IN [paths |-> in.paths,
              answer |-> IF joined = << >> THEN FallbackAnswer ELSE joined,
              missing |-> AddMissing(in.missing, additions),
              reason |-> IF ReasonIsFalsy(in.reason) THEN Str(ScrubReason)
                         ELSE in.reason,
              cannot_answer |-> IF joined = << >> THEN "false" ELSE in.cannot_answer]

(***************************************************************************)
(* /api/walkthrough: parsing of the completion text.                       *)
(* The texts of the model are words over the tokens "{", "}", "x", "0",    *)
(* "1" and "[]": "{}" is the text of a JSON object (whose members are the  *)
(* model answer), "[]" the text of a JSON array, "0" a JSON literal that   *)
(* is falsy in JavaScript, "1" one that is truthy but not an object, and   *)
(* any other word is not JSON.                                             *)
(***************************************************************************)
\* JSON.parse(t): "object", "array", "falsy", "primitive", or "throws"
JSONParse(t) ==
  IF t = << "{", "}" >> THEN "object"
  ELSE IF t = << "[]" >> THEN "array"
  ELSE IF t = << "0" >> THEN "falsy"
  ELSE IF t = << "1" >> THEN "primitive"
  ELSE "throws"

\* t.indexOf(c) and t.lastIndexOf(c), 0-based, -1 if absent
IndexOfChar(t, c) ==
  IF \E i \in 1..Len(t) : t[i] = c
    THEN (CHOOSE i \in 1..Len(t) : t[i] = c /\ \A j \in 1..(i - 1) : t[j] # c) - 1
    ELSE -1
LastIndexOfChar(t, c) ==
  IF \E i \in 1..Len(t) : t[i] = c
    THEN (CHOOSE i \in 1..Len(t) : t[i] = c /\ \A j \in (i + 1)..Len(t) : t[j] # c) - 1
    ELSE -1

\* variant: no recovery step after a failed JSON.parse
ParseCompletionStrict(t) ==
  IF JSONParse(t) # "throws" THEN JSONParse(t) ELSE "null"

\* lines 379-386: what json is after the parse and its recovery step:
\* "object", "array", "primitive", "falsy" (json is a falsy value) or "null"
ParseCompletion(t) ==
  IF JSONParse(t) # "throws" THEN JSONParse(t)
  ELSE LET start == IndexOfChar(t, "{")
           end == LastIndexOfChar(t, "}")
       IN IF start # -1 /\ end # -1
            THEN IF JSONParse(Slice(t, start, end + 1)) # "throws"
                   THEN JSONParse(Slice(t, start, end + 1))
                   ELSE "null"
            ELSE "null"

(***************************************************************************)
(* /api/walkthrough: validation of the parsed answer (lines 394-435).      *)
(***************************************************************************)
\* availablePaths
AvailablePaths(files) == { files[i].path : i \in 1..Len(files) }

\* allFetched
AllFetched(files) == [i \in 1..Len(files) |-> files[i].path]

\* lines 398-400
NormalizeShape(json) ==
  [json EXCEPT
     !.sources = IF json.sources.k = "arr" THEN json.sources ELSE Arr(<< >>),
     !.references = IF json.references.k = "arr" THEN json.references ELSE Arr(<< >>),
     !.missing = IF json.missing.k = "arr" THEN json.missing ELSE Arr(<< >>)]

\* variant: the sources filter checks the type only
SourceIsString(e, paths) == e.k = "str"

\* the callback of json.sources.filter at line 403
SourceIsGrounded(e, paths) == e.k = "str" /\ e.s \in paths

\* the callback of json.references.filter at line 405
ReferenceIsGrounded(r, paths) == r.k = "ref" /\ r.path \in paths

\* lines 403-405
GroundingFilter(json, paths) ==
  [json EXCEPT
     !.sources = Arr(SelectSeq(json.sources.a, LAMBDA e : SourceIsGrounded(e, paths))),
     !.references = Arr(SelectSeq(json.references.a,
                                  LAMBDA r : ReferenceIsGrounded(r, paths)))]

\* variant: sources is never refilled
BackfillSourcesNever(json, files) == json

\* lines 408-410
BackfillSources(json, files) ==
  IF Len(json.sources.a) = 0 /\ Len(files) > 0 /\ json.cannot_answer # "true"
    THEN [json EXCEPT !.sources =
            Arr([i \in 1..Min(MaxAutoSources, Len(files)) |-> Str(files[i].path)])]
    ELSE json

\* variant: the excerpt is the whole content
SynthesizedReferenceWholeContent(first) ==
  [k |-> "ref", path |-> first.path, excerpt |-> first.content]

\* the reference synthesized at line 416
SynthesizedReference(first) ==
  [k |-> "ref", path |-> first.path, excerpt |-> Slice(first.content, 0, ExcerptLen)]

\* variant: no reference is synthesized
BackfillReferencesNever(json, files) == json

\* lines 413-418
BackfillReferences(json, files) ==
  IF Len(json.references.a) = 0 /\ Len(json.sources.a) > 0
     /\ json.cannot_answer # "true"
    THEN IF \E i \in 1..Len(files) : files[i].path = json.sources.a[1].s
           THEN LET i == CHOOSE i \in 1..Len(files) :
                           /\ files[i].path = json.sources.a[1].s
                           /\ \A j \in 1..(i - 1) : files[j].path # json.sources.a[1].s
                IN [json EXCEPT !.references =
                      Arr(Append(json.references.a, SynthesizedReference(files[i])))]
           ELSE json
    ELSE json

CannotAnswerReason ==
  <<"T", "h", "e", " ", "i", "n", "f", "o", "r", "m", "a", "t", "i", "o", "n", " ", "r", "e", "q", "u", "i", "r", "e", "d", " ", "t", "o", " ", "a", "n", "s", "w", "e", "r", " ", "t", "h", "i", "s", " ", "q", "u", "e", "s", "t", "i", "o", "n", " ", "i", "s", " ", "n", "o", "t", " ", "p", "r", "e", "s", "e", "n", "t", " ", "i", "n", " ", "t", "h", "e", " ", "p", "r", "o", "v", "i", "d", "e", "d", " ", "r", "e", "p", "o", "s", "i", "t", "o", "r", "y", " ", "f", "i", "l", "e", "s", ".">>

NoFilesReason ==
  <<"N", "o", " ", "f", "i", "l", "e", "s", " ", "c", "o", "u", "l", "d", " ", "b", "e", " ", "f", "e", "t", "c", "h", "e", "d", " ", "f", "r", "o", "m", " ", "G", "i", "t", "H", "u", "b", " ", "(", "p", "o", "s", "s", "i", "b", "l", "e", " ", "4", "0", "3", " ", "r", "a", "t", "e", " ", "l", "i", "m", "i", "t", ",", " ", "m", "i", "s", "s", "i", "n", "g", " ", "G", "I", "T", "H", "U", "B", "_", "T", "O", "K", "E", "N", " ", "f", "o", "r", " ", "p", "r", "i", "v", "a", "t", "e", " ", "r", "e", "p", "o", ",", " ", "o", "r", " ", "i", "n", "v", "a", "l", "i", "d", " ", "r", "e", "p", "o", "s", "i", "t", "o", "r", "y", ")", ".", " ", "C", "o", "n", "f", "i", "g", "u", "r", "e", " ", "G", "I", "T", "H", "U", "B", "_", "T", "O", "K", "E", "N", " ", "a", "n", "d", " ", "t", "r", "y", " ", "a", "g", "a", "i", "n", ".">>

\* the walkthrough of the early exit at line 345
EarlyExitWalkthrough ==
  [kind |-> "object", answer |-> Str(<< >>), references |-> Arr(<< >>), trace |-> Arr(<< >>),
   sources |-> Arr(<< >>), missing |-> Arr(<< >>), cannot_answer |-> "true",
   reason |-> Str(NoFilesReason)]

\* the condition of line 421 is evaluated without a TypeError:
\* json.answer.trim is only reached for a truthy answer
ResolveThrows(json) ==
  /\ json.cannot_answer # "true"
  /\ Len(json.references.a) = 0
  /\ json.answer.k = "other"

\* the condition of line 421
IsCannotAnswer(json) ==
  \/ json.cannot_answer = "true"
  \/ /\ Len(json.references.a) = 0
     /\ \/ json.answer.k = "absent"
        \/ json.answer.k = "str" /\ Trim(json.answer.s) = << >>

\* variant: the answer text is left in place
CannotAnswerResultKeepsAnswer(json) ==
  [json EXCEPT
     !.cannot_answer = "true",
     !.references = Arr(<< >>),
     !.trace = Arr(<< >>),
     !.missing = Arr(<< >>),
     !.reason = IF ReasonIsFalsy(json.reason) THEN Str(CannotAnswerReason)
                ELSE json.reason]

\* lines 422-427
CannotAnswerResult(json) ==
  [json EXCEPT
     !.cannot_answer = "true",
     !.answer = Str(<< >>),
     !.references = Arr(<< >>),
     !.trace = Arr(<< >>),
     !.missing = Arr(<< >>),
     !.reason = IF ReasonIsFalsy(json.reason) THEN Str(CannotAnswerReason)
                ELSE json.reason]

\* lines 433-434
AnswerableResult(json) ==
  [json EXCEPT
     !.cannot_answer = "false",
     !.reason = IF ReasonIsFalsy(json.reason) THEN Str(<< >>) ELSE json.reason]

\* lines 438-460 applied to the json object
ScrubJson(json, paths) ==
  IF json.answer.k = "str" /\ json.answer.s # << >>
    THEN LET out == Scrub([paths |-> paths, answer |-> json.answer.s,
                           missing |-> json.missing.a, reason |-> json.reason,
                           cannot_answer |-> json.cannot_answer])
         IN [json EXCEPT !.answer = Str(out.answer),
                         !.missing = Arr(out.missing),
                         !.reason = out.reason,
                         !.cannot_answer = out.cannot_answer]
    ELSE json

\* lines 395-418: the steps before the cannot_answer decision
Grounded(json, files) ==
  BackfillReferences(
    BackfillSources(
      GroundingFilter(NormalizeShape(json), AvailablePaths(files)), files), files)

\* lines 394-464: [threw, walkthrough] for a parsed answer and filesData.files
ValidateAnswer(json, files) ==
  LET g == Grounded(json, files)
  IN IF ResolveThrows(g) THEN [threw |-> TRUE, walkthrough |-> NoJson]
     ELSE IF IsCannotAnswer(g)
       THEN [threw |-> FALSE, walkthrough |-> CannotAnswerResult(g)]
     ELSE [threw |-> FALSE,
           walkthrough |-> ScrubJson(AnswerableResult(g), AvailablePaths(files))]

(***************************************************************************)
(* Inputs of the walkthrough handler.                                      *)
(***************************************************************************)
\* largest length of a completion text
MaxTextLen == 3

TextAlphabet == { "{", "}", "x", "0", "1", "[]" }
Texts == UNION { [1..n -> TextAlphabet] : n \in 0..MaxTextLen }

pathZ == <<"z", ".", "p", "y">>
answerBlank == << " " >>
answerMentions == pathA \o << "\n", "\n" >> \o pathZ
refNull == [k |-> "null", path |-> << >>, excerpt |-> << >>]
refNoPath == [k |-> "nopath", path |-> << >>, excerpt |-> << >>]
refQuoted == [k |-> "ref", path |-> pathA, excerpt |-> <<"a", "u">>]
refInvented == [k |-> "ref", path |-> pathA, excerpt |-> <<"z", "z">>]
refUngrounded == [k |-> "ref", path |-> pathZ, excerpt |-> <<"z", "z">>]

AnswerChoices == { Absent, Str(answerBlank), Str(answerMentions), OtherValue }
ReferenceChoices ==
  { AbsentArr, NotArray, Arr(<< refQuoted >>), Arr(<< refInvented >>),
    Arr(<< refUngrounded, refNull, refNoPath >>),
    Arr(<< refUngrounded, refQuoted >>) }
SourceChoices ==
  { AbsentArr, Arr(<< Str(pathA) >>), Arr(<< Str(pathZ), OtherValue >>),
    Arr(<< Str(pathPkg), Str(pathZ) >>) }
CannotAnswerChoices == { "absent", "true", "other" }

\* the objects the model may return: the members it mentions are free, the
\* remaining three are all omitted or all given
ModelAnswers ==
  { [kind |-> "object", answer |-> a, references |-> r, trace |-> x.trace,
     sources |-> src, missing |-> x.missing, cannot_answer |-> c,
     reason |-> x.reason] :
      a \in AnswerChoices, r \in ReferenceChoices, src \in SourceChoices,
      c \in CannotAnswerChoices,
      x \in { [trace |-> AbsentArr, missing |-> AbsentArr, reason |-> Absent],
              [trace |-> Arr(<< Str(<<"t">>) >>), missing |-> Arr(<< Str(<<"z">>) >>),
               reason |-> Str(<<"r">>)] } }

\* answers tried with the texts that need the recovery step
RecoveredAnswers ==
  { [EmptyObject EXCEPT !.answer = Str(answerMentions)],
    [EmptyObject EXCEPT !.cannot_answer = "true"] }

\* what the awaited completion may deliver: a rejection, or a text (and, when
\* the text holds an object, the members of that object)
CompletionOutcomes ==
  { [threw |-> TRUE, text |-> << >>, json |-> NoJson] }
  \cup { [threw |-> FALSE, text |-> t, json |-> NoJson] :
           t \in { u \in Texts : ParseCompletion(u) \notin { "object", "array" } } }
  \cup { [threw |-> FALSE, text |-> << "[]" >>, json |-> ArrayValue] }
  \cup { [threw |-> FALSE, text |-> << "{", "}" >>, json |-> j] : j \in ModelAnswers }
  \cup { [threw |-> FALSE, text |-> t, json |-> j] :
           t \in { u \in Texts : ParseCompletion(u) = "object" /\ JSONParse(u) = "throws" },
           j \in RecoveredAnswers }

Requests ==
  { [repo |-> r, question |-> q] :
      r \in { "missing", "invalid", "valid" }, q \in Questions }

WalkthroughTrees == { << >>, << entryA, entryPkg >> }
WalkthroughFetchOutcomes ==
  { [kind |-> "fail", content |-> << >>],
    [kind |-> "ok", content |-> contentAuth],
    [kind |-> "ok", content |-> contentLong] }
WalkthroughDepOutcomes ==
  { [kind |-> "fail", content |-> << >>],
    [kind |-> "ok", content |-> contentManifest] }

(***************************************************************************)
(* app.get('/api/walkthrough'), one action per awaited call.               *)
(***************************************************************************)
\* lines 321-338: parameter checks, SSE headers, first logs, retrieval call
WalkthroughStart ==
  /\ pc = "request"
  /\ \E req \in Requests :
       IF req.repo # "valid" \/ req.question = << >>
         THEN /\ status' = 400
              /\ ended' = TRUE
              /\ pc' = "replied"
              /\ UNCHANGED << opts, question, events >>
         ELSE /\ status' = 200
              /\ events' = << "log", "log" >>
              /\ question' = req.question
              /\ opts' = [maxFiles |-> WalkthroughMaxFiles,
                          maxBytes |-> WalkthroughMaxBytes]
              /\ pc' = "tree"
              /\ UNCHANGED ended
  /\ UNCHANGED << openai, rulesStore >>
  /\ UNCHANGED retrievalVars
  /\ UNCHANGED << completionCalls, text, modelJson, walkthrough, validated >>
  /\ UNCHANGED scrubVars
  /\ UNCHANGED << rulesVars, rateVars, retryVars >>

WalkthroughFetchTree == FetchTreeFrom(WalkthroughTrees)
WalkthroughScoreNext == ScoreNextWith(WalkthroughFetchOutcomes)
WalkthroughDepNext == DepNextWith(WalkthroughDepOutcomes)

\* variant: the client check made before the empty-retrieval check
AfterFetchBranchClientFirst(files, client) ==
  IF ~client THEN "noclient"
  ELSE IF Len(files) = 0 THEN "early"
  ELSE "complete"

\* lines 342 and 360: which way the handler goes once filesData is known
AfterFetchBranch(files, client) ==
  IF Len(files) = 0 THEN "early"
  ELSE IF ~client THEN "noclient"
  ELSE "complete"

\* lines 339-371: from the return of the retrieval to the completion call
\* (the locals of the returned call are gone; result is filesData)
WalkthroughAfterFetch ==
  /\ pc = "returned"
  /\ IF AfterFetchBranch(result.files, openai) = "early"
       THEN /\ events' = events \o << "log", "log", "result" >>
            /\ walkthrough' = Serialize(EarlyExitWalkthrough)
            /\ UNCHANGED validated
            /\ ended' = TRUE
            /\ pc' = "done"
            /\ UNCHANGED completionCalls
     ELSE IF AfterFetchBranch(result.files, openai) = "noclient"
       THEN /\ events' = events \o << "log", "log", "error" >>
            /\ ended' = TRUE
            /\ pc' = "done"
            /\ UNCHANGED << walkthrough, validated, completionCalls >>
     ELSE /\ events' = events \o << "log", "log" >>
          /\ completionCalls' = completionCalls + 1
          /\ pc' = "completion"
          /\ UNCHANGED << walkthrough, validated, ended >>
  /\ tree' = << >>
  /\ topCandidates' = << >>
  /\ idx' = 1
  /\ scoredFiles' = << >>
  /\ embedThrew' = FALSE
  /\ fetchLog' = << >>
  /\ embRes' = NoEmbedding
  /\ depLog' = << >>
  /\ depIdx' = 1
  /\ UNCHANGED << opts, question, openai, rulesStore, result, status, text,
                  modelJson >>
  /\ UNCHANGED scrubVars
  /\ UNCHANGED << rulesVars, rateVars, retryVars >>

\* what the handler writes once json is parsed: the catch block's 'error'
\* when validation throws, else a log and the 'result'
EmitValidated(json, files) ==
  LET v == IF json = "primitive" THEN [threw |-> TRUE, walkthrough |-> NoJson]
           ELSE ValidateAnswer(modelJson', files)
  IN IF v.threw
       THEN /\ events' = Append(events, "error")
            /\ UNCHANGED << walkthrough, validated >>
       ELSE /\ events' = events \o << "log", "result" >>
            /\ validated' = v.walkthrough
            /\ walkthrough' = Serialize(v.walkthrough)

\* lines 371-468: from the settled completion call to res.end()
WalkthroughAfterCompletion ==
  /\ pc = "completion"
  /\ \E c \in CompletionOutcomes :
       IF c.threw
         THEN /\ events' = Append(events, "error")
              /\ UNCHANGED << text, modelJson, walkthrough, validated >>
         ELSE /\ text' = c.text
              /\ modelJson' = c.json
              /\ IF ParseCompletion(c.text) \in { "null", "falsy" }
                   THEN /\ events' = Append(events, "error")
                        /\ UNCHANGED << walkthrough, validated >>
                   ELSE EmitValidated(ParseCompletion(c.text), result.files)
  /\ ended' = TRUE
  /\ pc' = "done"
  /\ UNCHANGED << opts, question, openai, rulesStore, status, completionCalls >>
  /\ UNCHANGED retrievalVars
  /\ UNCHANGED scrubVars
  /\ UNCHANGED << rulesVars, rateVars, retryVars >>

\* the state of the server when a walkthrough request arrives
Init ==
  /\ pc = "request"
  /\ opts = [maxFiles |-> 0, maxBytes |-> 0]
  /\ question = << >>
  /\ openai \in BOOLEAN
  /\ rulesStore = [key \in {} |-> NoRules]
  /\ tree = << >>
  /\ topCandidates = << >>
  /\ idx = 1
  /\ scoredFiles = << >>
  /\ embedThrew = FALSE
  /\ fetchLog = << >>
  /\ embRes = NoEmbedding
  /\ depLog = << >>
  /\ result = EmptyResult
  /\ depIdx = 1
  /\ events = << >>
  /\ ended = FALSE
  /\ status = 0
  /\ completionCalls = 0
  /\ text = << >>
  /\ modelJson = NoJson
  /\ walkthrough = NoJson
  /\ validated = NoJson
  /\ scrubIn = NoScrub
  /\ scrubOut1 = NoScrub
  /\ scrubOut2 = NoScrub
  /\ ServicesIdle

Next ==
  \/ WalkthroughStart
  \/ WalkthroughFetchTree
  \/ WalkthroughScoreNext
  \/ Rank
  \/ Select
  \/ WalkthroughDepNext
  \/ Return
  \/ WalkthroughAfterFetch
  \/ WalkthroughAfterCompletion

Spec == Init /\ [][Next]_vars

(***************************************************************************)
(* The prose scrub as a function: applied once, then to its own output.    *)
(***************************************************************************)
pathAx == pathA \o << "x" >>
ScrubPieces ==
  { pathA, pathAx, pathZ, << "x" >>, << "\n", "\n" >>, << "\n" >>, << " " >> }

RECURSIVE ConcatAll(_)
ConcatAll(ps) == IF ps = << >> THEN << >> ELSE Head(ps) \o ConcatAll(Tail(ps))

ScrubTexts ==
  { ConcatAll(ps) : ps \in UNION { [1..n -> ScrubPieces] : n \in 0..MaxPieces } }

\* the states in which line 438 is reached: a grounded path set of a
\* non-empty retrieval, cannot_answer false and reason a string
ScrubInputs ==
  { [paths |-> ps, answer |-> t, missing |-> m, reason |-> r,
     cannot_answer |-> "false"] :
      ps \in { { pathA }, { pathAx }, { pathA, pathZ } },
      t \in ScrubTexts,
      m \in { << >>, << Str(<<"a">>) >>, << Str(<<"q">>) >> },
      r \in { Str(<< >>), Str(<<"r">>) } }

ScrubOnce ==
  /\ pc = "scrub"
  /\ scrubOut1' = Scrub(scrubIn)
  /\ pc' = "scrubbed"
  /\ UNCHANGED << opts, question, openai, rulesStore, scrubIn, scrubOut2 >>
  /\ UNCHANGED retrievalVars
  /\ UNCHANGED handlerVars
  /\ UNCHANGED << rulesVars, rateVars, retryVars >>

ScrubAgain ==
  /\ pc = "scrubbed"
  /\ scrubOut2' = Scrub(scrubOut1)
  /\ pc' = "rescrubbed"
  /\ UNCHANGED << opts, question, openai, rulesStore, scrubIn, scrubOut1 >>
  /\ UNCHANGED retrievalVars
  /\ UNCHANGED handlerVars
  /\ UNCHANGED << rulesVars, rateVars, retryVars >>

InitScrub ==
  /\ pc = "scrub"
  /\ opts = [maxFiles |-> 0, maxBytes |-> 0]
  /\ question = << >>
  /\ openai = FALSE
  /\ rulesStore = [key \in {} |-> NoRules]
  /\ tree = << >>
  /\ topCandidates = << >>
  /\ idx = 1
  /\ scoredFiles = << >>
  /\ embedThrew = FALSE
  /\ fetchLog = << >>
  /\ embRes = NoEmbedding
  /\ depLog = << >>
  /\ result = EmptyResult
  /\ depIdx = 1
  /\ events = << >>
  /\ ended = FALSE
  /\ status = 0
  /\ completionCalls = 0
  /\ text = << >>
  /\ modelJson = NoJson
  /\ walkthrough = NoJson
  /\ validated = NoJson
  /\ scrubIn \in ScrubInputs
  /\ scrubOut1 = NoScrub
  /\ scrubOut2 = NoScrub
  /\ ServicesIdle

NextScrub == ScrubOnce \/ ScrubAgain

SpecScrub == InitScrub /\ [][NextScrub]_vars

(***************************************************************************)
(* rateLimitMiddleware (lines 18-37), mounted on /api/analyze and          *)
(* /api/walkthrough (line 40).  A reply status 200 stands for next().      *)
(***************************************************************************)
IPs == { "ip1", "ip2" }
LimitedPaths == { "/api/analyze", "/api/walkthrough" }

\* rateStore.get(ip) || { count: 0, windowStart: now }
EntryFor(ip) ==
  IF ip \in DOMAIN rateStore THEN rateStore[ip]
  ELSE [count |-> 0, windowStart |-> now]

\* variant: the window also ends for a request exactly one window length
\* after its start
WindowExpiredAtBoundary(entry) == now - entry.windowStart >= RateLimitWindow

\* the condition of line 23
WindowExpired(entry) == now - entry.windowStart > RateLimitWindow

\* lines 23-27: the entry after the request has been counted
Counted(entry) ==
  IF WindowExpired(entry) THEN [count |-> 1, windowStart |-> now]
  ELSE [entry EXCEPT !.count = @ + 1]

\* lines 18-37 for one request
RateLimitFrom(ips, paths) ==
  /\ \E ip \in ips, path \in paths :
       LET entry == Counted(EntryFor(ip))
           w == << ip, entry.windowStart >>
       IN /\ entry.count <= RateLimitMax + MaxRejected
          /\ rateStore' = [a \in DOMAIN rateStore \cup { ip } |->
                             IF a = ip THEN entry ELSE rateStore[a]]
          /\ rateReply' =
               [ip |-> ip, path |-> path,
                status |-> IF entry.count > RateLimitMax THEN 429 ELSE 200,
                at |-> now, hadEntry |-> ip \in DOMAIN rateStore,
                prevStart |-> EntryFor(ip).windowStart]
          /\ admitted' =
               IF entry.count > RateLimitMax THEN admitted
               ELSE [x \in DOMAIN admitted \cup { w } |->
                       IF x = w
                         THEN (IF w \in DOMAIN admitted THEN admitted[w] ELSE 0) + 1
                         ELSE admitted[x]]
  /\ UNCHANGED << pc, opts, question, openai, rulesStore, now >>
  /\ UNCHANGED retrievalVars
  /\ UNCHANGED handlerVars
  /\ UNCHANGED scrubVars
  /\ UNCHANGED << rulesVars, retryVars >>

\* a request to one of the two endpoints arrives at the idle server
RateLimitMiddleware == pc = "listening" /\ RateLimitFrom(IPs, LimitedPaths)

\* time passes between two requests
Tick ==
  /\ pc = "listening"
  /\ now < MaxTime
  /\ now' = now + 1
  /\ UNCHANGED << pc, opts, question, openai, rulesStore, rateStore, rateReply,
                  admitted >>
  /\ UNCHANGED retrievalVars
  /\ UNCHANGED handlerVars
  /\ UNCHANGED scrubVars
  /\ UNCHANGED << rulesVars, retryVars >>

InitRate ==
  /\ pc = "listening"
  /\ opts = [maxFiles |-> 0, maxBytes |-> 0]
  /\ question = << >>
  /\ openai = FALSE
  /\ rulesStore = [key \in {} |-> NoRules]
  /\ tree = << >>
  /\ topCandidates = << >>
  /\ idx = 1
  /\ scoredFiles = << >>
  /\ embedThrew = FALSE
  /\ fetchLog = << >>
  /\ embRes = NoEmbedding
  /\ depLog = << >>
  /\ result = EmptyResult
  /\ depIdx = 1
  /\ events = << >>
  /\ ended = FALSE
  /\ status = 0
  /\ completionCalls = 0
  /\ text = << >>
  /\ modelJson = NoJson
  /\ walkthrough = NoJson
  /\ validated = NoJson
  /\ scrubIn = NoScrub
  /\ scrubOut1 = NoScrub
  /\ scrubOut2 = NoScrub
  /\ ServicesIdle

NextRate == RateLimitMiddleware \/ Tick

SpecRate == InitRate /\ [][NextRate]_vars

(***************************************************************************)
(* One retrieval of o/r in flight while other requests arrive: POST        *)
(* /api/rules calls, and requests of another client to /api/walkthrough,   *)
(* which run rateLimitMiddleware and otherwise work on locals of their own.*)
(***************************************************************************)
InFlight == pc \in { "tree", "score", "select", "deps" }

InFlightBodies ==
  { [whitelist |-> AbsentArr, blacklist |-> NotArray],
    [whitelist |-> Arr(<< >>), blacklist |-> Arr(<< pathA >>)],
    [whitelist |-> Arr(<< patNodeModules >>), blacklist |-> Arr(<< patSrc >>)] }

PostRulesInFlight == InFlight /\ PostRulesFrom({ repoKey, repoOther }, InFlightBodies)

OtherRequestArrives == InFlight /\ RateLimitFrom({ "ip2" }, { "/api/walkthrough" })

NextInFlight ==
  PostRulesInFlight \/ OtherRequestArrives \/ RulesFetchTree \/ RulesScoreNext
    \/ Rank \/ Select \/ RulesDepNext \/ Return

SpecInFlight == InitRules /\ [][NextInFlight]_vars

(***************************************************************************)
(* axiosGetWithRetry(url, opts) with the default attempts and backoff      *)
(* (lines 65-78), one action per awaited promise.                          *)
(***************************************************************************)
DefaultAttempts == 3
DefaultBackoff == 300

GetErrors == { "ECONNRESET", "HTTP403", "HTTP404" }
GetResponses == { "content", "no content" }

\* variant: the delay grows by one backoff per attempt
DelayLinear(i) == DefaultBackoff * (i + 1)

\* backoff * Math.pow(2, i)
Delay(i) == DefaultBackoff * 2^i

\* line 70: axios.get settles; a response is returned at once, an error is
\* caught and the timer of line 73 is started
AxiosGet ==
  /\ pc = "get"
  /\ attempt < DefaultAttempts
  /\ \/ \E r \in GetResponses :
          /\ calls' = Append(calls, [kind |-> "ok", value |-> r])
          /\ settled' = [kind |-> "returned", value |-> r]
          /\ pc' = "settled"
          /\ UNCHANGED lastErr
     \/ \E e \in GetErrors :
          /\ calls' = Append(calls, [kind |-> "err", value |-> e])
          /\ lastErr' = e
          /\ pc' = "sleep"
          /\ UNCHANGED settled
  /\ UNCHANGED << opts, question, openai, rulesStore, attempt, slept >>
  /\ UNCHANGED retrievalVars
  /\ UNCHANGED handlerVars
  /\ UNCHANGED scrubVars
  /\ UNCHANGED << rulesVars, rateVars >>

\* lines 73-77: the timer fires, i++, and the loop goes on or lastErr is
\* thrown
BackoffElapsed ==
  /\ pc = "sleep"
  /\ slept' = Append(slept, Delay(attempt))
  /\ attempt' = attempt + 1
  /\ IF attempt + 1 < DefaultAttempts
       THEN /\ pc' = "get"
            /\ UNCHANGED settled
       ELSE /\ pc' = "settled"
            /\ settled' = [kind |-> "thrown", value |-> lastErr]
  /\ UNCHANGED << opts, question, openai, rulesStore, lastErr, calls >>
  /\ UNCHANGED retrievalVars
  /\ UNCHANGED handlerVars
  /\ UNCHANGED scrubVars
  /\ UNCHANGED << rulesVars, rateVars >>

InitRetry ==
  /\ pc = "get"
  /\ opts = [maxFiles |-> 0, maxBytes |-> 0]
  /\ question = << >>
  /\ openai = FALSE
  /\ rulesStore = [key \in {} |-> NoRules]
  /\ tree = << >>
  /\ topCandidates = << >>
  /\ idx = 1
  /\ scoredFiles = << >>
  /\ embedThrew = FALSE
  /\ fetchLog = << >>
  /\ embRes = NoEmbedding
  /\ depLog = << >>
  /\ result = EmptyResult
  /\ depIdx = 1
  /\ events = << >>
  /\ ended = FALSE
  /\ status = 0
  /\ completionCalls = 0
  /\ text = << >>
  /\ modelJson = NoJson
  /\ walkthrough = NoJson
  /\ validated = NoJson
  /\ scrubIn = NoScrub
  /\ scrubOut1 = NoScrub
  /\ scrubOut2 = NoScrub
  /\ ServicesIdle

NextRetry == AxiosGet \/ BackoffElapsed

\* every awaited axios.get settles and every timer fires
SpecRetry == InitRetry /\ [][NextRetry]_vars /\ WF_vars(NextRetry)

(***************************************************************************)
(* Properties.                                                             *)
(***************************************************************************)
ResultEmitted == \E i \in 1..Len(events) : events[i] = "result"
LastEvent == IF events = << >> THEN "none" ELSE events[Len(events)]
filesData == result

\* C1 -- Grounding invariant: in every emitted result, every entry of
\* walkthrough.sources is a string equal to the path of a file of filesData,
\* and every reference has such a path.
GroundingInvariant ==
  ResultEmitted =>
    /\ \A i \in 1..Len(walkthrough.sources.a) :
         /\ walkthrough.sources.a[i].k = "str"
         /\ walkthrough.sources.a[i].s \in AvailablePaths(filesData.files)
    /\ \A i \in 1..Len(walkthrough.references.a) :
         /\ walkthrough.references.a[i].k = "ref"
         /\ walkthrough.references.a[i].path \in AvailablePaths(filesData.files)

\* a result was emitted for a model answer that cited a file that was not
\* supplied, and the result still cites something
GroundingWitness ==
  /\ ResultEmitted
  /\ completionCalls = 1
  /\ modelJson.sources = Arr(<< Str(pathPkg), Str(pathZ) >>)
  /\ modelJson.references = Arr(<< refUngrounded, refQuoted >>)
  /\ Len(walkthrough.sources.a) > 0
  /\ Len(walkthrough.references.a) > 0

\* C2 -- Budget invariant: the result returned by fetchRepoTreeAndFiles has
\* at most maxFiles files and at most maxBytes bytes, the dependency-manifest
\* pass included.
BudgetInvariant ==
  pc = "returned" =>
    /\ Len(result.files) <= maxFiles
    /\ result.totalBytes <= maxBytes

\* C3 -- Empty-retrieval short-circuit: a request whose retrieval returned no
\* file ends with the canonical cannot_answer result and never calls the
\* completion endpoint, with or without a configured client.
EmptyRetrievalShortCircuit ==
  (pc = "done" /\ Len(filesData.files) = 0) =>
    /\ LastEvent = "result"
    /\ walkthrough.cannot_answer = "true"
    /\ walkthrough.answer = Str(<< >>)
    /\ walkthrough.references = Arr(<< >>)
    /\ walkthrough.trace = Arr(<< >>)
    /\ walkthrough.sources = Arr(<< >>)
    /\ walkthrough.missing = Arr(<< >>)
    /\ walkthrough.reason.k = "str"
    /\ walkthrough.reason.s # << >>
    /\ completionCalls = 0

\* the short-circuit taken by a server without a model client
EmptyRetrievalWitness ==
  /\ pc = "done"
  /\ Len(filesData.files) = 0
  /\ ~openai
  /\ ResultEmitted

\* the observable outcome of the validation steps: the three lists are
\* arrays, cannot_answer is a boolean, reason is present and every cited
\* path is a supplied one
WalkthroughIsValidated(w, files) ==
  /\ w.sources.k = "arr"
  /\ w.references.k = "arr"
  /\ w.missing.k = "arr"
  /\ w.cannot_answer \in { "true", "false" }
  /\ w.reason.k # "absent"
  /\ \A i \in 1..Len(w.sources.a) :
       w.sources.a[i].k = "str" /\ w.sources.a[i].s \in AvailablePaths(files)
  /\ \A i \in 1..Len(w.references.a) :
       w.references.a[i].k = "ref" /\ w.references.a[i].path \in AvailablePaths(files)

TerminalEvents == { i \in 1..Len(events) : events[i] \in { "result", "error" } }

\* C4 -- Terminal-event protocol: a streamed request writes at most one
\* 'result' or 'error' event, that event is the last one and the stream is
\* ended with it, a finished request has written one, and a result that
\* follows a completion call carries a validated answer.
TerminalEventProtocol ==
  /\ Cardinality(TerminalEvents) <= 1
  /\ TerminalEvents # {} => (Len(events) \in TerminalEvents /\ ended)
  /\ (status = 200 /\ ended) => TerminalEvents # {}
  /\ (status = 200 /\ pc = "done") => ended
  /\ (LastEvent = "result" /\ completionCalls > 0) =>
       WalkthroughIsValidated(walkthrough, filesData.files)

\* C5 (as stated) -- cannot_answer is false whenever a file was supplied and
\* true only when retrieval returned no file.
CannotAnswerOnlyWithoutFiles ==
  ResultEmitted =>
    /\ Len(filesData.files) > 0 => walkthrough.cannot_answer = "false"
    /\ walkthrough.cannot_answer = "true" => Len(filesData.files) = 0

\* C5 (amended) -- in every result cannot_answer is true exactly when
\* retrieval returned no file or the model answer itself set cannot_answer
\* to true.
CannotAnswerIffNoFilesOrDeclared ==
  ResultEmitted =>
    (walkthrough.cannot_answer = "true" <=>
       (Len(filesData.files) = 0 \/ modelJson.cannot_answer = "true"))

\* files were supplied, the model gave neither answer nor references nor a
\* declaration, and the result is answerable
CannotAnswerWitness ==
  /\ ResultEmitted
  /\ Len(filesData.files) > 0
  /\ modelJson.cannot_answer # "true"
  /\ modelJson.answer = Absent
  /\ modelJson.references = AbsentArr
  /\ walkthrough.cannot_answer = "false"

\* position of a path in the scoring window (the fetch order)
WindowPosition(path) ==
  CHOOSE i \in 1..Len(topCandidates) : topCandidates[i].path = path

\* a precedes b in the keyword ranking: higher score, then fewer path
\* segments, then earlier fetch
LexicallyPrecedes(a, b) ==
  \/ a.score > b.score
  \/ a.score = b.score /\ Depth(a.path) < Depth(b.path)
  \/ /\ a.score = b.score
     /\ Depth(a.path) = Depth(b.path)
     /\ WindowPosition(a.path) < WindowPosition(b.path)

\* C6 -- Fallback monotonicity: when the semantic re-rank block threw, at the
\* embedding call or part-way through the scoring of the files, the order of
\* scoredFiles used for selection is the keyword order.
FallbackMonotonicity ==
  (pc \in { "select", "deps", "returned" } /\ embedThrew) =>
    \A i, j \in 1..Len(scoredFiles) :
      i < j => LexicallyPrecedes(scoredFiles[i], scoredFiles[j])

\* the block threw after a file had got its finalScore, and the keyword sort
\* moved a later-fetched file to the front
FallbackWitness ==
  /\ pc = "select"
  /\ embedThrew
  /\ Len(scoredFiles) >= 2
  /\ \E i \in 1..Len(scoredFiles) : scoredFiles[i].hasFinal
  /\ WindowPosition(scoredFiles[1].path) > WindowPosition(scoredFiles[2].path)

\* C7 -- Scrub idempotence: the scrub applied to its own output changes
\* neither answer, missing, reason nor cannot_answer.
ScrubIdempotence ==
  pc = "rescrubbed" =>
    /\ scrubOut2.answer = scrubOut1.answer
    /\ scrubOut2.missing = scrubOut1.missing
    /\ scrubOut2.reason = scrubOut1.reason
    /\ scrubOut2.cannot_answer = scrubOut1.cannot_answer

\* the first pass changed the answer and its output still mentions a token
\* outside the grounded set, so the second pass runs its body as well
ScrubIdempotenceWitness ==
  /\ pc = "rescrubbed"
  /\ scrubOut1.answer # scrubIn.answer
  /\ UnknownMentions(scrubOut1.answer, scrubOut1.paths) # << >>

\* C8 -- Excerpt grounding: every reference of a result has the path of a
\* supplied file and an excerpt that is a substring of that file's content.
ExcerptGrounding ==
  ResultEmitted =>
    \A i \in 1..Len(walkthrough.references.a) :
      /\ walkthrough.references.a[i].k = "ref"
      /\ \E n \in 1..Len(filesData.files) :
           /\ filesData.files[n].path = walkthrough.references.a[i].path
           /\ Includes(filesData.files[n].content, walkthrough.references.a[i].excerpt)

\* C9 -- Result shape: the walkthrough of every result has all seven keys,
\* references, sources and missing being arrays and cannot_answer a boolean.
ResultShape ==
  ResultEmitted =>
    /\ walkthrough.answer.k # "absent"
    /\ walkthrough.trace.k # "absent"
    /\ walkthrough.reason.k # "absent"
    /\ walkthrough.references.k = "arr"
    /\ walkthrough.sources.k = "arr"
    /\ walkthrough.missing.k = "arr"
    /\ walkthrough.cannot_answer \in { "true", "false" }

\* the text is JSON as it stands
IsStrictJSON(t) == JSONParse(t) # "throws"

\* the span from the first "{" to the last "}" of the text is JSON
SpanIsJSON(t) ==
  \E i, j \in 1..Len(t) :
    /\ t[i] = "{" /\ \A k \in 1..(i - 1) : t[k] # "{"
    /\ t[j] = "}" /\ \A k \in (j + 1)..Len(t) : t[k] # "}"
    /\ i <= j
    /\ JSONParse(SubSeq(t, i, j)) # "throws"

\* C10 -- Provider failure is never turned into an answer: after a completion
\* call that threw or whose text is neither JSON nor has a JSON span, the
\* request ends with 'error' and without 'result'; a text that is not JSON
\* but has a JSON span is processed as that span's object.
ProviderFailureIsError ==
  (pc = "done" /\ completionCalls = 1) =>
    /\ (~IsStrictJSON(text) /\ ~SpanIsJSON(text)) =>
         (LastEvent = "error" /\ ~ResultEmitted)
    /\ (~IsStrictJSON(text) /\ SpanIsJSON(text)) =>
         /\ LastEvent = "result"
         /\ walkthrough = Serialize(ValidateAnswer(modelJson, filesData.files).walkthrough)

\* a text with prose before the object was recovered and answered
ProviderRecoveryWitness ==
  /\ pc = "done"
  /\ completionCalls = 1
  /\ text = << "x", "{", "}" >>
  /\ LastEvent = "result"
  /\ modelJson.answer = Str(answerMentions)

(***************************************************************************)
(* Retrieval: scoring pool, manifests, candidate filter, ranking.          *)
(***************************************************************************)
\* the scoring loop and the ranking are over, the ranked pass is next
ScoringDone == pc = "select"

PositionsOf(files, p) == { j \in 1..Len(files) : files[j].path = p }

\* C11 -- Partial-failure tolerance: when the ranked pass starts, every
\* candidate of the window has been attempted; a candidate is in the scored
\* pool, once and with the score of its fetched content, exactly when its
\* fetch returned content, whatever the other fetches did.
PartialFailureTolerance ==
  ScoringDone =>
    /\ Len(fetchLog) = Len(topCandidates)
    /\ LET kws == Keywords(question)
       IN \A i \in 1..Len(fetchLog) :
            LET e == fetchLog[i]
                at == PositionsOf(scoredFiles, e.path)
            IN /\ e.path = topCandidates[i].path
               /\ e.kind # "ok" => at = {}
               /\ e.kind = "ok" =>
                    /\ Cardinality(at) = 1
                    /\ \A j \in at :
                         scoredFiles[j].score =
                           Score(e.path, Truncate(e.content), kws)
    /\ Len(scoredFiles) =
         Cardinality({ i \in 1..Len(fetchLog) : fetchLog[i].kind = "ok" })

\* a failed fetch followed by a successful one, both past the scoring loop
PartialFailureWitness ==
  /\ ScoringDone
  /\ \E i, j \in 1..Len(fetchLog) :
       i < j /\ fetchLog[i].kind = "fail" /\ fetchLog[j].kind = "ok"

\* totalBytes after iteration i of the dependency loop
TotalAfterDep(i) ==
  IF i < Len(depLog) THEN depLog[i + 1].before ELSE result.totalBytes

\* C12 -- Always-include manifests: a manifest that was not yet in
\* result.files, whose fetch returned content and whose bytes fit under
\* maxBytes at that moment, is in the returned files and its bytes are added
\* to totalBytes; any other iteration leaves totalBytes alone, and no
\* manifest is in the files twice.
ManifestsAlwaysIncluded ==
  pc \in { "deps", "returned" } =>
    \A i \in 1..Len(depLog) :
      LET e == depLog[i]
          dep == depFilesSet[i]
          fetched == ~e.present /\ e.content # << >>
          fits == e.before + ByteLength(e.content) <= maxBytes
      IN /\ Cardinality(PositionsOf(result.files, dep)) <= 1
         /\ e.present => HasPath(result.files, dep)
         /\ (fetched /\ fits) =>
              /\ HasPath(result.files, dep)
              /\ TotalAfterDep(i) = e.before + ByteLength(e.content)
         /\ ~(fetched /\ fits) => TotalAfterDep(i) = e.before

\* a manifest admitted by the dependency pass on top of a full ranked pass,
\* and another one that the ranked pass had admitted
ManifestsWitness ==
  /\ pc = "returned"
  /\ \E i \in 1..Len(depLog) :
       /\ ~depLog[i].present
       /\ depLog[i].content # << >>
       /\ HasPath(result.files, depFilesSet[i])
       /\ Len(result.files) > maxFiles

\* the content the file store returned for a scored path
FetchedContent(path) ==
  fetchLog[CHOOSE i \in 1..Len(fetchLog) :
             fetchLog[i].path = path /\ fetchLog[i].kind = "ok"].content

\* position of a scored path among the successful fetches, in fetch order
FetchOrder(path) ==
  Cardinality({ i \in 1..Len(fetchLog) :
                  /\ fetchLog[i].kind = "ok"
                  /\ \E j \in i..Len(fetchLog) : fetchLog[j].path = path })

\* the ranked pass has just run and the dependency pass has not started
RankedPassDone == pc = "deps" /\ depLog = << >>

\* the ranking was done by the keyword comparator
LexicalRanking == ~embRes.called \/ embedThrew

\* the tree listing has been fetched and the candidates filtered
TreeFetched == pc \in { "score", "select", "deps" }

\* C13 -- Per-repo rules are removed: the candidates are those the built-in
\* skip list alone leaves of the tree, whatever the rules store holds.
CandidatesIgnoreRules ==
  TreeFetched =>
    topCandidates = Slice(FilteredCandidates(tree, NoRules), 0, WindowSize)

MatchesSome(path, patterns) ==
  \E i \in 1..Len(patterns) : Includes(path, patterns[i])

HasRecognizedExtension(path) ==
  \E i \in 1..Len(exts) :
    /\ Len(path) >= Len(exts[i])
    /\ SubSeq(path, Len(path) - Len(exts[i]) + 1, Len(path)) = exts[i]

\* C14 -- Candidate filter precedence: the candidates are exactly the blobs
\* of the tree with a recognized extension whose path contains a whitelist
\* substring, or contains neither a blacklist nor a built-in skip substring;
\* each once; an empty tree gives no candidate.
CandidateFilterPrecedence ==
  TreeFetched =>
    LET rules == RulesFor(rulesStore, repoKey)
        kept == { i \in 1..Len(tree) :
                    /\ tree[i].type = "blob"
                    /\ HasRecognizedExtension(tree[i].path)
                    /\ \/ MatchesSome(tree[i].path, rules.whitelist)
                       \/ /\ ~MatchesSome(tree[i].path, rules.blacklist)
                          /\ ~MatchesSome(tree[i].path, skipPatterns) }
    IN /\ { topCandidates[j].path : j \in 1..Len(topCandidates) }
            = { tree[i].path : i \in kept }
       /\ Len(topCandidates) = Cardinality(kept)
       /\ tree = << >> => topCandidates = << >>

\* a vendored file kept by a whitelist entry that its blacklist also names,
\* while the whitelisted directory and text file are not candidates
CandidateFilterWitness ==
  /\ TreeFetched
  /\ LET rules == RulesFor(rulesStore, repoKey)
     IN /\ MatchesSome(pathVendored, rules.whitelist)
        /\ MatchesSome(pathVendored, rules.blacklist)
        /\ MatchesSome(pathText, rules.whitelist)
        /\ MatchesSome(pathDir, rules.whitelist)
  /\ HasPath(topCandidates, pathVendored)
  /\ ~HasPath(topCandidates, pathText)
  /\ ~HasPath(topCandidates, pathA)

RECURSIVE SumOverKeywords(_, _, _)
SumOverKeywords(pathLower, contentLower, kws) ==
  IF kws = << >> THEN 0
  ELSE (IF Includes(pathLower, Head(kws)) THEN 10 ELSE 0)
       + Min(Occurrences(contentLower, Head(kws), 1), 20)
       + SumOverKeywords(pathLower, contentLower, Tail(kws))

\* C15 -- Lexical score formula: the score of every fetched candidate is the
\* sum over the distinct keywords of the question of 10 for a keyword in
\* the lower-cased path plus the occurrences, capped at 20, of the keyword
\* in the lower-cased truncated content.
LexicalScoreFormula ==
  ScoringDone =>
    \A j \in 1..Len(scoredFiles) :
      scoredFiles[j].score =
        SumOverKeywords(ToLowerCase(scoredFiles[j].path),
                        ToLowerCase(Truncate(FetchedContent(scoredFiles[j].path))),
                        Dedupe(Keywords(question)))

\* positions of the scored files whose path contains a keyword
WithKeywordInPath ==
  LET kws == Keywords(question)
  IN { i \in 1..Len(scoredFiles) :
         LET pathLower == ToLowerCase(scoredFiles[i].path)
         IN \E k \in 1..Len(kws) : Includes(pathLower, kws[k]) }

\* positions of the scored files with no keyword in path or fetched content
WithoutKeyword ==
  LET kws == Keywords(question)
  IN { j \in 1..Len(scoredFiles) :
         LET pathLower == ToLowerCase(scoredFiles[j].path)
             contentLower == ToLowerCase(FetchedContent(scoredFiles[j].path))
         IN \A k \in 1..Len(kws) :
              ~Includes(pathLower, kws[k]) /\ ~Includes(contentLower, kws[k]) }

\* C16 -- Scenario B generalized: in the keyword ranking a fetched candidate
\* whose path contains a keyword stands before every fetched candidate in
\* whose path and content no keyword occurs.
KeywordPathRanksFirst ==
  (ScoringDone /\ LexicalRanking) =>
    \A i \in WithKeywordInPath, j \in WithoutKeyword : i < j

\* a nested file with a keyword in its path ranked before a top-level file
\* without any keyword, which was fetched first
KeywordPathWitness ==
  /\ ScoringDone
  /\ LexicalRanking
  /\ \E i \in WithKeywordInPath, j \in WithoutKeyword :
       /\ i < j
       /\ Depth(scoredFiles[i].path) > Depth(scoredFiles[j].path)
       /\ FetchOrder(scoredFiles[j].path) < FetchOrder(scoredFiles[i].path)

\* the score the sort of lines 207-214 compared
RankingScore(f) == IF LexicalRanking THEN f.score ELSE f.finalScore

\* C17 -- Tie-break and Scenario C: of two scored files with equal ranking
\* score the one with fewer path segments is ranked first; with maxFiles = 1
\* and two equally scored files of depths 1 and 2 that each fit maxBytes,
\* the ranked pass admits the one of depth 1 only.
TieBreakShallowerFirst ==
  /\ ScoringDone =>
       \A i, j \in 1..Len(scoredFiles) :
         (/\ RankingScore(scoredFiles[i]) = RankingScore(scoredFiles[j])
          /\ Depth(scoredFiles[i].path) < Depth(scoredFiles[j].path)) => i < j
  /\ (/\ RankedPassDone
      /\ maxFiles = 1
      /\ Len(scoredFiles) = 2
      /\ RankingScore(scoredFiles[1]) = RankingScore(scoredFiles[2])
      /\ { Depth(scoredFiles[1].path), Depth(scoredFiles[2].path) } = { 1, 2 }
      /\ scoredFiles[1].bytes <= maxBytes
      /\ scoredFiles[2].bytes <= maxBytes)
       => /\ Len(result.files) = 1
          /\ Depth(result.files[1].path) = 1

\* Scenario C itself
TieBreakWitness ==
  /\ RankedPassDone
  /\ maxFiles = 1
  /\ Len(scoredFiles) = 2
  /\ RankingScore(scoredFiles[1]) = RankingScore(scoredFiles[2])
  /\ Depth(scoredFiles[1].path) = 1
  /\ Depth(scoredFiles[2].path) = 2
  /\ scoredFiles[2].bytes <= maxBytes
  /\ Len(result.files) = 1

RECURSIVE SumBytes(_, _)
SumBytes(files, n) == IF n = 0 THEN 0 ELSE files[n].bytes + SumBytes(files, n - 1)

\* C18 -- No skip-ahead: the files admitted by the ranked pass are a prefix
\* of the ranked sequence, within both caps, and the prefix ends only at the
\* end of the sequence, at maxFiles files, or where the next ranked file
\* would exceed maxBytes.
NoSkipAhead ==
  RankedPassDone =>
    LET n == Len(result.files)
    IN /\ n <= Len(scoredFiles)
       /\ \A i \in 1..n : result.files[i].path = scoredFiles[i].path
       /\ result.totalBytes = SumBytes(scoredFiles, n)
       /\ n <= maxFiles
       /\ result.totalBytes <= maxBytes
       /\ n < Len(scoredFiles) =>
            \/ n >= maxFiles
            \/ result.totalBytes + scoredFiles[n + 1].bytes > maxBytes

\* the pass stopped at a file that was too large although a later-ranked
\* file would have fitted under both caps
NoSkipAheadWitness ==
  /\ RankedPassDone
  /\ Len(result.files) < Len(scoredFiles)
  /\ Len(result.files) < maxFiles
  /\ \E j \in (Len(result.files) + 2)..Len(scoredFiles) :
       result.totalBytes + scoredFiles[j].bytes <= maxBytes

\* C19 -- Truncation fidelity: a file admitted by the ranked pass is flagged
\* truncated exactly when its fetched content was longer than the ceiling;
\* its content is then the first TruncateAt characters of what was fetched,
\* and otherwise what was fetched, unchanged.
TruncationFidelity ==
  RankedPassDone =>
    \A i \in 1..Len(result.files) :
      LET f == result.files[i]
          c == FetchedContent(f.path)
      IN /\ f.truncated = "true" <=> Len(c) > TruncateAt
         /\ f.truncated = "true" => f.content = SubSeq(c, 1, TruncateAt)
         /\ f.truncated = "false" => f.content = c

\* cosine similarity * 100 of two vectors of the model
Cosine100(q, v) ==
  (100 * (q[1] * v[1] + q[2] * v[2])) \div (norm(q) * norm(v))

OrderedBy(files, key(_)) ==
  \A i, j \in 1..Len(files) :
    i < j =>
      \/ key(files[i]) > key(files[j])
      \/ /\ key(files[i]) = key(files[j])
         /\ Depth(files[i].path) <= Depth(files[j].path)

FinalKey(f) == f.finalScore
LexicalKey(f) == f.score

FinalizedCannotAnswer ==
  /\ completionCalls > 0
  /\ validated.kind # "none"
  /\ validated.cannot_answer = "true"

\* C21 -- Cannot-answer terminal state: when the validator finalizes
\* cannot_answer = true, the emitted walkthrough has an empty answer, empty
\* references, trace and missing, and a non-empty reason (the model's own,
\* or the canonical sentence when the model gave none; never the note of
\* the prose scrub), and the 'log' and 'result' events close the stream.
CannotAnswerTerminal ==
  FinalizedCannotAnswer =>
    /\ walkthrough.cannot_answer = "true"
    /\ walkthrough.answer = Str(<< >>)
    /\ walkthrough.references = Arr(<< >>)
    /\ walkthrough.trace = Arr(<< >>)
    /\ walkthrough.missing = Arr(<< >>)
    /\ ~ReasonIsFalsy(walkthrough.reason)
    /\ walkthrough.reason =
         (IF ReasonIsFalsy(modelJson.reason) THEN Str(CannotAnswerReason)
          ELSE modelJson.reason)
    /\ walkthrough.reason # Str(ScrubReason)
    /\ Len(events) >= 2
    /\ events[Len(events) - 1] = "log"
    /\ LastEvent = "result"
    /\ ended

\* the model declared cannot_answer with a text that mentions a file that
\* was not supplied, a quoted reference and no reason
CannotAnswerTerminalWitness ==
  /\ FinalizedCannotAnswer
  /\ modelJson.cannot_answer = "true"
  /\ modelJson.answer = Str(answerMentions)
  /\ modelJson.references = Arr(<< refQuoted >>)
  /\ modelJson.reason = Absent
  /\ walkthrough.reason = Str(CannotAnswerReason)

\* the handler finished a request whose completion text parsed to an object
\* or an array that does not declare cannot_answer
AnsweredWithoutDeclaration ==
  /\ pc = "done"
  /\ completionCalls > 0
  /\ modelJson.kind # "none"
  /\ modelJson.cannot_answer # "true"

\* the grounding filter leaves no reference of the model answer
NoGroundedReference ==
  \/ modelJson.references.k # "arr"
  \/ \A i \in 1..Len(modelJson.references.a) :
       ~(/\ modelJson.references.a[i].k = "ref"
         /\ modelJson.references.a[i].path \in AvailablePaths(filesData.files))

\* C22 -- Reference back-fill: when the model did not declare cannot_answer
\* and none of its references survives the grounding filter, validation
\* finishes with sources non-empty and with exactly one reference, whose
\* path is sources[0] and whose excerpt is the first ExcerptLen characters
\* of the content of the supplied file of that path.
ReferenceBackfill ==
  (AnsweredWithoutDeclaration /\ NoGroundedReference) =>
    /\ validated.kind # "none"
    /\ Len(validated.sources.a) > 0
    /\ Len(validated.references.a) = 1
    /\ LET r == validated.references.a[1]
       IN /\ r.k = "ref"
          /\ r.path = validated.sources.a[1].s
          /\ \E n \in 1..Len(filesData.files) :
               LET c == filesData.files[n].content
               IN /\ filesData.files[n].path = r.path
                  /\ r.excerpt = SubSeq(c, 1, Min(ExcerptLen, Len(c)))

\* the model cited only a path that was not supplied; the result carries
\* one synthesized reference to a supplied file longer than the excerpt
ReferenceBackfillWitness ==
  /\ AnsweredWithoutDeclaration
  /\ modelJson.references = Arr(<< refUngrounded, refNull, refNoPath >>)
  /\ ResultEmitted
  /\ Len(walkthrough.references.a) = 1
  /\ walkthrough.references.a[1].path # pathZ
  /\ \E n \in 1..Len(filesData.files) :
       /\ filesData.files[n].path = walkthrough.references.a[1].path
       /\ Len(filesData.files[n].content) > ExcerptLen

\* C29 -- With at least one supplied file and a model answer that does not
\* declare cannot_answer, a finished validation leaves cannot_answer = false
\* with at least one source and at least one reference; a finished
\* validation has cannot_answer = true only when the model declared it.
AnswerableWithFiles ==
  (pc = "done" /\ completionCalls > 0 /\ validated.kind # "none") =>
    /\ Len(filesData.files) > 0
    /\ modelJson.cannot_answer # "true" =>
         /\ validated.cannot_answer = "false"
         /\ Len(validated.sources.a) >= 1
         /\ Len(validated.references.a) >= 1
    /\ validated.cannot_answer = "true" => modelJson.cannot_answer = "true"

\* the model gave no answer text, no references and only sources that were
\* not supplied, and validation still ends answerable
AnswerableWithFilesWitness ==
  /\ pc = "done"
  /\ completionCalls > 0
  /\ modelJson.kind = "object"
  /\ modelJson.cannot_answer = "other"
  /\ modelJson.answer = Str(answerBlank)
  /\ modelJson.references = NotArray
  /\ modelJson.sources = Arr(<< Str(pathZ), OtherValue >>)
  /\ validated.cannot_answer = "false"
  /\ Len(validated.references.a) = 1

\* the maximal runs of path characters of s, as <<first, last>>
PathRuns(s) ==
  { << i, RunEnd(s, i) >> :
      i \in { k \in 1..Len(s) :
                IsPathChar(s[k]) /\ (k = 1 \/ ~IsPathChar(s[k - 1])) } }

\* the file mentions of s: the runs in which the scan finds a match
FileMentions(s) ==
  { SubSeq(s, r[1], r[2]) :
      r \in { q \in PathRuns(s) : \E k \in q[1]..q[2] : MatchEnd(s, k) # 0 } }

\* C23 -- Scrub precision: every paragraph the scrub drops contains a
\* file-like token outside the grounded path set, and an answer whose file
\* mentions are all exact grounded paths is left unchanged, with nothing
\* added to missing.
ScrubPrecision ==
  pc = "scrubbed" =>
    /\ LET unknown == UnknownMentions(scrubIn.answer, scrubIn.paths)
           paras == SplitParas(scrubIn.answer, 1, << >>)
       IN \A i \in 1..Len(paras) :
            KeepPara(paras[i], unknown, scrubIn.paths)
            \/ \E m \in FileMentions(paras[i]) : m \notin scrubIn.paths
    /\ FileMentions(scrubIn.answer) \subseteq scrubIn.paths =>
         /\ scrubOut1.answer = scrubIn.answer
         /\ scrubOut1.missing = scrubIn.missing

\* C24 -- Scrub completeness: after one pass the answer holds no file-like
\* token outside the grounded path set, and when every paragraph was dropped
\* the answer is the fixed sentence and cannot_answer is false.
ScrubCompleteness ==
  pc = "scrubbed" =>
    /\ UnknownMentions(scrubOut1.answer, scrubIn.paths) = << >>
    /\ LET unknown == UnknownMentions(scrubIn.answer, scrubIn.paths)
           paras == SplitParas(scrubIn.answer, 1, << >>)
       IN (/\ unknown # << >>
           /\ \A i \in 1..Len(paras) : ~KeepPara(paras[i], unknown, scrubIn.paths)) =>
            /\ scrubOut1.answer = FallbackAnswer
            /\ scrubOut1.cannot_answer = "false"

\* every candidate of the scoring window has a settled content fetch, in
\* window order
WindowSettled ==
  /\ Len(fetchLog) = Len(topCandidates)
  /\ \A i \in 1..Len(fetchLog) : fetchLog[i].path = topCandidates[i].path

\* C27 -- Rank-after-settle: while the scoring loop runs, no file has been
\* ranked or admitted into result.files; once a file is ranked or admitted,
\* or the loop has been left, every candidate of the scoring window has had
\* its content fetch settled, whatever maxFiles and maxBytes are.
RankAfterSettle ==
  /\ pc = "score" =>
       /\ result.files = << >>
       /\ ~embRes.called
       /\ Len(fetchLog) = idx - 1
  /\ (pc \in { "select", "deps", "returned" } \/ result.files # << >>
      \/ embRes.called) => WindowSettled

\* the window holds more candidates than maxFiles admits, one of the
\* fetches failed, and the ranking has run
RankAfterSettleWitness ==
  /\ pc = "select"
  /\ Len(topCandidates) > maxFiles
  /\ WindowSettled
  /\ \E i \in 1..Len(fetchLog) : fetchLog[i].kind = "fail"
  /\ \E i \in 1..Len(fetchLog) : fetchLog[i].kind = "ok"

\* C26 -- Rule Set round trip: the rules of the last accepted POST for a
\* repository are kept under its key "owner/name" and no other key is
\* written; a GET for a repository with posted rules answers 200 with
\* that key and exactly those rules; the retrieval of o/r filters with the
\* rules posted for o/r.
RulesRoundTrip ==
  /\ DOMAIN rulesStore = DOMAIN posted
  /\ \A key \in DOMAIN posted : rulesStore[key] = posted[key]
  /\ (rulesReply # NoReply /\ RepositoryOf(rulesReply.repo) \in DOMAIN posted) =>
       /\ rulesReply.status = 200
       /\ rulesReply.key = RepositoryOf(rulesReply.repo)
       /\ rulesReply.rules = posted[RepositoryOf(rulesReply.repo)]
  /\ TreeFetched =>
       topCandidates =
         Slice(FilteredCandidates(tree, RulesFor(posted, repoKey)), 0, WindowSize)

\* requests of w = <<ip, windowStart>> that reached the handler
AdmittedIn(w) == IF w \in DOMAIN admitted THEN admitted[w] ELSE 0

\* C30 -- Rate limiter bound: of the requests of one address counted in one
\* window at most RateLimitMax reach the handler; the counter of an address
\* counts its own requests of the current window only; a request is
\* answered 429 exactly when the window it is counted in has already let
\* RateLimitMax requests through; a request arriving more than
\* RateLimitWindow after windowStart is let through with the count reset to
\* 1, and an earlier one is counted in the window it found.
RateLimiterBound ==
  /\ \A w \in DOMAIN admitted : admitted[w] <= RateLimitMax
  /\ \A ip \in DOMAIN rateStore :
       LET e == rateStore[ip]
       IN AdmittedIn(<< ip, e.windowStart >>) =
            (IF e.count > RateLimitMax THEN RateLimitMax ELSE e.count)
  /\ rateReply # NoRateReply =>
       LET e == rateStore[rateReply.ip]
       IN /\ rateReply.status \in { 200, 429 }
          /\ rateReply.status = 429 <=> e.count > RateLimitMax
          /\ (rateReply.hadEntry
              /\ rateReply.at - rateReply.prevStart > RateLimitWindow) =>
               /\ rateReply.status = 200
               /\ e = [count |-> 1, windowStart |-> rateReply.at]
          /\ (rateReply.hadEntry
              /\ rateReply.at - rateReply.prevStart <= RateLimitWindow) =>
               e.windowStart = rateReply.prevStart

\* an address was answered 429 in a window that let RateLimitMax of its
\* requests through, while the other address is in a window of its own,
\* and the address had an earlier window as well
RateLimiterWitness ==
  /\ rateReply.status = 429
  /\ AdmittedIn(<< rateReply.ip, rateStore[rateReply.ip].windowStart >>) = RateLimitMax
  /\ \E w \in DOMAIN admitted :
       w[1] = rateReply.ip /\ w[2] < rateStore[rateReply.ip].windowStart
  /\ \E ip \in DOMAIN rateStore :
       /\ ip # rateReply.ip
       /\ rateStore[ip].count = 1
       /\ rateStore[ip].windowStart # rateStore[rateReply.ip].windowStart

\* the axios.get calls made so far that failed
FailedCalls == { k \in 1..Len(calls) : calls[k].kind = "err" }

\* at most DefaultAttempts calls, none after a success, the k-th wait is
\* DefaultBackoff * 2^(k-1) and follows the k-th failure, a success is
\* returned as it is, and lastErr is thrown after DefaultAttempts failures
\* and waits
RetryIsBounded ==
  /\ Len(calls) <= DefaultAttempts
  /\ \A k \in 1..(Len(calls) - 1) : calls[k].kind = "err"
  /\ attempt = Len(slept)
  /\ \A k \in 1..Len(slept) :
       slept[k] = (IF k = 1 THEN 300 ELSE IF k = 2 THEN 600 ELSE 1200)
  /\ Len(slept) = Cardinality(FailedCalls) - (IF pc = "sleep" THEN 1 ELSE 0)
  /\ settled.kind = "returned" <=>
       (calls # << >> /\ calls[Len(calls)].kind = "ok")
  /\ settled.kind = "returned" => settled.value = calls[Len(calls)].value
  /\ settled.kind = "thrown" <=>
       (Cardinality(FailedCalls) = DefaultAttempts /\ pc # "sleep")
  /\ settled.kind = "thrown" => settled.value = calls[DefaultAttempts].value
  /\ settled.kind = "pending" <=> pc # "settled"

AloneWindow == Slice(FilteredCandidates(tree, rulesRead), 0, WindowSize)

RECURSIVE AloneScored(_)
AloneScored(n) ==
  IF n = 0 THEN << >>
  ELSE ScoredAfter(AloneScored(n - 1), AloneWindow[n],
                   [kind |-> fetchLog[n].kind, content |-> fetchLog[n].content],
                   Keywords(question))

AloneRanked == SortBy(AloneScored(Len(AloneWindow)), "lexical")

RECURSIVE AloneResult(_)
AloneResult(n) ==
  IF n = 0 THEN RankedPass(AloneRanked, EmptyResult, maxFiles, maxBytes)
  ELSE IF depLog[n].present \/ depLog[n].content = << >> THEN AloneResult(n - 1)
  ELSE AddDep(AloneResult(n - 1), depFilesSet[n], depLog[n].content,
              maxFiles, maxBytes)

\* the candidates of the rules read whose content was fetched
FetchedOfWindow ==
  { AloneWindow[i].path : i \in { k \in 1..Len(fetchLog) : fetchLog[k].kind = "ok" } }

====
